---- MODULE Spec2Model ----
(***************************************************************************)
(* A model of the real-time capture-and-fusion pipeline of the             *)
(* mental-health assistant: EmotionAnalyzer (frame window), VoiceAnalyzer  *)
(* (voice fusion), MultimodalAnalyzer (session histories, follow-up merge) *)
(* and ParallelAnalyzer (frame queue, video worker, audio worker with the  *)
(* energy-based endpointer, start/stop).                                   *)
(*                                                                         *)
(* Numbers: a float of the code is an exact fraction [num, den], or an     *)
(* integer in the unit its definition names (hundredths, tenths).          *)
(***************************************************************************)
EXTENDS Integers, Sequences, FiniteSets, TLC

(***************************************************************************)
(* Bounds of the model (not program constants).                            *)
(***************************************************************************)
\* chunks the microphone delivers in one behaviour
MaxChunks == 19
\* frames the camera thread offers in one behaviour
MaxFrames == 13
\* calls of start_processing in one behaviour
MaxStarts == 2
\* entries a session history may reach in one behaviour
MaxHist == 2
\* text-intent follow-ups handed to one fusion call
MaxFollowups == 2
\* calls of reset_session in one behaviour
MaxResets == 2
\* frames handed to the face estimator when it is used on its own
FaceFrames == 5
\* the acoustic distributions tried are the multiples of 1/AcousticGrain
AcousticGrain == 10

None == "None"

(***************************************************************************)
(* Small helpers.                                                          *)
(***************************************************************************)
RECURSIVE SumSeq(_)
SumSeq(s) == IF s = <<>> THEN 0 ELSE Head(s) + SumSeq(Tail(s))

Range(s) == {s[i] : i \in 1..Len(s)}

\* s[-n:] of Python
LastN_whole(s, n) == s
LastN(s, n) == IF Len(s) <= n THEN s ELSE SubSeq(s, Len(s) - n + 1, Len(s))

\* exact comparison and equality of fractions with positive denominators
FracEq(a, b) == a.num * b.den = b.num * a.den
FracLe(a, b) == a.num * b.den <= b.num * a.den
Frac(n, d) == [num |-> n, den |-> d]

(***************************************************************************)
(* EmotionAnalyzer (the FrameWindow and the facial classifier).            *)
(***************************************************************************)
\* emotion_analyzer.py:16-22, in index order
FaceLabels == <<"surprise", "happy", "anger", "sadness", "fear">>

\* the window keeps the most recent 3 frames (emotion_analyzer.py:60, 65)
FrameWindowSize == 3

\* An image is [src, overlay]: the camera frame it comes from (src >= 1) and
\* whether the emotion text was drawn on it (the display copy).
Image(n, o) == [src |-> n, overlay |-> o]
NoFrame == Image(0, FALSE)

\* preprocess_frame: the 48x48 normalised image of a frame, or None (NoFrame
\* here) when cv2 raises on it; cv_ok says whether cv2 accepts the frame
preprocess_frame(frame, cv_ok) == IF cv_ok THEN frame ELSE NoFrame

\* add_frame: append the preprocessed frame, then pop the oldest beyond 3
add_frame_no_evict(buffer, frame, cv_ok) ==
    LET preprocessed == preprocess_frame(frame, cv_ok)
    IN  IF preprocessed # NoFrame THEN Append(buffer, preprocessed) ELSE buffer

add_frame(buffer, frame, cv_ok) ==
    LET preprocessed == preprocess_frame(frame, cv_ok)
    IN  IF preprocessed # NoFrame
        THEN LET appended == Append(buffer, preprocessed)
             IN  IF Len(appended) > FrameWindowSize THEN Tail(appended) ELSE appended
        ELSE buffer

\* what model.predict can do on one call: raise, or return a softmax row whose
\* argmax is `label` with value `confidence` (hundredths)
FaceConfidences == {30, 59, 60, 70, 71, 90}
Predictions ==
    {[raises |-> TRUE, label |-> None, confidence |-> 0]} \cup
    {[raises |-> FALSE, label |-> FaceLabels[i], confidence |-> c] :
        i \in 1..Len(FaceLabels), c \in FaceConfidences}

\* A face or voice analysis as the fusion code reads it: its status (absent
\* from a dict that carries an emotion), emotion, confidence (a fraction) and,
\* for a voice analysis, the transcript ("" when there is none).
Analysis(st, label, conf, text) ==
    [status |-> st, emotion |-> label, confidence |-> conf, transcribed_text |-> text]
Waiting == Analysis("waiting", None, Frac(0, 1), "")
ErrorResult == Analysis("error", None, Frac(0, 1), "")
Estimate(label, conf) == Analysis("ok", label, Frac(conf, 100), "")
\* the empty dict {} a caller starts from
EmptyAnalysis == Analysis("empty", None, Frac(0, 1), "")

\* `'emotion' in result`
HasEmotion(result) == result.emotion # None

\* get_emotion
get_emotion_no_length_check(buffer, loaded, prediction) ==
    IF ~loaded
    THEN Waiting
    ELSE IF prediction.raises
         THEN ErrorResult
         ELSE Estimate(prediction.label, prediction.confidence)

get_emotion(buffer, loaded, prediction) ==
    IF Len(buffer) < FrameWindowSize \/ ~loaded
    THEN Waiting
    ELSE IF prediction.raises
         THEN ErrorResult
         ELSE Estimate(prediction.label, prediction.confidence)

(***************************************************************************)
(* VoiceAnalyzer: transcript sentiment and the acoustic/transcript fusion. *)
(***************************************************************************)
\* the keys of combined_emotions, in dict order (voice_analyzer.py:391-397)
VoiceLabels == <<"anger", "happiness", "sadness", "fear", "neutral">>
VoiceLabelSet == Range(VoiceLabels)

\* voice_analyzer.py:387-388, in tenths
text_weight == 7
acoustic_weight == 3

FracMin(a, b) == IF FracLe(a, b) THEN a ELSE b
Abs(x) == IF x < 0 THEN -x ELSE x

\* analyze_text_sentiment: `compound` is VADER's compound score in hundredths;
\* anger_kw / fear_kw say whether a word of the list occurs in the text
\* the same with the two min(..., 0.95) caps left out
analyze_text_sentiment_uncapped(text, compound, anger_kw, fear_kw) ==
    IF text = ""
    THEN [emotion |-> "neutral", confidence |-> Frac(1, 2)]
    ELSE IF compound >= 50
         THEN [emotion |-> "happiness", confidence |-> Frac(100 + compound, 200)]
         ELSE IF compound <= -50
              THEN [emotion |-> IF anger_kw THEN "anger"
                                ELSE IF fear_kw THEN "fear" ELSE "sadness",
                    confidence |-> Frac(100 + Abs(compound), 200)]
              ELSE [emotion |-> "neutral",
                    confidence |-> Frac(100 + (50 - Abs(compound)), 200)]

analyze_text_sentiment(text, compound, anger_kw, fear_kw) ==
    IF text = ""
    THEN [emotion |-> "neutral", confidence |-> Frac(1, 2)]
    ELSE IF compound >= 50
         THEN [emotion |-> "happiness",
               confidence |-> FracMin(Frac(100 + compound, 200), Frac(95, 100))]
         ELSE IF compound <= -50
              THEN [emotion |-> IF anger_kw THEN "anger"
                                ELSE IF fear_kw THEN "fear" ELSE "sadness",
                    confidence |-> FracMin(Frac(100 + Abs(compound), 200), Frac(95, 100))]
              ELSE IF -50 < compound /\ compound < 50
                   THEN [emotion |-> "neutral",
                         confidence |-> Frac(100 + (50 - Abs(compound)), 200)]
                   \* no branch taken: `emotion` is unbound at line 168
                   ELSE [emotion |-> "UnboundLocalError", confidence |-> Frac(0, 1)]

\* max(d.items(), key=lambda x: x[1]) over a dict with keys `order`: the first
\* key, in dict order, that carries the largest value
MaxItem(order, d) ==
    LET best == CHOOSE i \in 1..Len(order) :
                   /\ \A j \in 1..Len(order) : d[order[j]] <= d[order[i]]
                   /\ \A j \in 1..(i - 1) : d[order[j]] < d[order[i]]
    IN  order[best]

\* voice_analyzer.py:390-409. The acoustic result is [all_emotions, den]: label
\* l scores all_emotions[l]/den (the keys may be fewer than five: the fallback
\* of analyze_acoustic_emotion is {"neutral": 1.0}). The combined scores are
\* kept over the common denominator CombinedDen.
CombinedDen(acoustic_emotion, text_sentiment) ==
    10 * acoustic_emotion.den * text_sentiment.confidence.den

combined_emotions_swapped_weights(acoustic_emotion, text_sentiment) ==
    [l \in VoiceLabelSet |->
        (IF l \in DOMAIN acoustic_emotion.all_emotions
         THEN text_weight * acoustic_emotion.all_emotions[l]
                  * text_sentiment.confidence.den
         ELSE 0)
        + (IF l = text_sentiment.emotion
           THEN acoustic_weight * text_sentiment.confidence.num * acoustic_emotion.den
           ELSE 0)]

combined_emotions(acoustic_emotion, text_sentiment) ==
    [l \in VoiceLabelSet |->
        (IF l \in DOMAIN acoustic_emotion.all_emotions
         THEN acoustic_weight * acoustic_emotion.all_emotions[l]
                  * text_sentiment.confidence.den
         ELSE 0)
        + (IF l = text_sentiment.emotion
           THEN text_weight * text_sentiment.confidence.num * acoustic_emotion.den
           ELSE 0)]

\* analyze_emotion (voice_analyzer.py:356-433). `outcome` is what the external
\* steps do: "nofile" (no file to analyze), "nofeatures" (extract_features
\* returned {}), "raises" (any step raised) or "ok".
analyze_emotion(outcome, transcribed_text, text_sentiment, acoustic_emotion) ==
    IF outcome # "ok"
    THEN [status |-> "error", emotion |-> None, confidence |-> Frac(0, 1),
          transcribed_text |-> "",
          combined |-> [l \in VoiceLabelSet |-> 0], combined_den |-> 1,
          all_emotions |-> [l \in VoiceLabelSet |-> Frac(0, 1)]]
    ELSE LET combined == combined_emotions(acoustic_emotion, text_sentiment)
             den == CombinedDen(acoustic_emotion, text_sentiment)
             dominant_emotion == MaxItem(VoiceLabels, combined)
             \* taken before the scores are normalised
             confidence == Frac(combined[dominant_emotion], den)
             total == SumSeq([i \in 1..Len(VoiceLabels) |-> combined[VoiceLabels[i]]])
         IN  [status |-> "ok", emotion |-> dominant_emotion, confidence |-> confidence,
              transcribed_text |-> transcribed_text,
              \* the scores before line 415 normalises them, over combined_den
              combined |-> combined, combined_den |-> den,
              \* combined[l] / total when total > 0, else left as they are
              all_emotions |-> [l \in VoiceLabelSet |->
                                   IF total > 0 THEN Frac(combined[l], total)
                                   ELSE Frac(combined[l], den)]]

\* analyze_acoustic_emotion (voice_analyzer.py:264-354). The features are
\* integers: energy in thousandths, zero_crossing_rate in hundredths,
\* speech_rate in tenths, the others in their own unit; `present` is FALSE
\* when a key is missing from the dict (the except clause). The scores are in
\* tenths; the result is [all_emotions, den]: label l scores
\* all_emotions[l]/den, den being total_score.
Bonus(cond, tenths) == IF cond THEN tenths ELSE 0
Max2(a, b) == IF a >= b THEN a ELSE b
Min2(a, b) == IF a <= b THEN a ELSE b

NeutralReduction_unclamped(max_other_score) == max_other_score - 5
\* line 331: min(0.2, max_other_score - 0.5)
NeutralReduction(max_other_score) == Min2(2, max_other_score - 5)

analyze_acoustic_emotion(features) ==
    IF ~features.present
    THEN [all_emotions |-> [neutral |-> 1], den |-> 1]
    ELSE LET energy == features.energy
             zcr == features.zero_crossing_rate
             pitch_mean == features.pitch_mean
             pitch_std == features.pitch_std
             speech_rate == features.speech_rate
             spectral_centroid == features.spectral_centroid
             anger == Bonus(energy > 50, 3) + Bonus(pitch_mean > 200, 2)
                      + Bonus(speech_rate > 35, 2) + Bonus(spectral_centroid > 2000, 2)
             happiness == Bonus(energy > 40, 2) + Bonus(pitch_std > 40, 3)
                          + Bonus(speech_rate > 30 /\ speech_rate < 35, 2)
                          + Bonus(1500 < spectral_centroid /\ spectral_centroid < 2000, 2)
             sadness == Bonus(energy < 30, 3) + Bonus(pitch_mean < 180, 2)
                        + Bonus(speech_rate < 25, 2) + Bonus(spectral_centroid < 1500, 2)
             fear == Bonus(20 < energy /\ energy < 40, 2) + Bonus(pitch_std > 30, 2)
                     + Bonus(features.tempo > 120, 2) + Bonus(zcr > 10, 2)
             max_other_score == Max2(Max2(anger, happiness), Max2(sadness, fear))
             neutral == IF max_other_score > 5
                        THEN 3 - NeutralReduction(max_other_score)
                        ELSE 3
             total_score == anger + happiness + sadness + fear + neutral
         IN  [all_emotions |-> [anger |-> anger, happiness |-> happiness,
                                sadness |-> sadness, fear |-> fear, neutral |-> neutral],
              \* line 335: the scores are divided only when total_score > 0
              den |-> IF total_score > 0 THEN total_score ELSE 10]

\* the part of a voice analysis the fusion code reads
VoiceView(v) == Analysis(v.status, v.emotion, v.confidence, v.transcribed_text)

(***************************************************************************)
(* MultimodalAnalyzer: session histories, aggregate state, follow-ups.     *)
(***************************************************************************)
\* emotion_weights (multimodal_integration.py:23-31), in tenths
emotion_weights ==
    [surprise  |-> [valence |-> 1,  arousal |-> 8],
     happy     |-> [valence |-> 9,  arousal |-> 6],
     happiness |-> [valence |-> 9,  arousal |-> 6],
     anger     |-> [valence |-> -8, arousal |-> 9],
     sadness   |-> [valence |-> -7, arousal |-> -4],
     fear      |-> [valence |-> -8, arousal |-> 7],
     neutral   |-> [valence |-> 0,  arousal |-> 0]]

\* the estimate reads the last 10 entries of each history
RecentWindow == 10
\* the vote of one face entry and of one voice entry, in tenths
face_vote == 6
voice_vote == 4

\* the keys of emotion_counts in insertion order: the labels of s, each at its
\* first occurrence
RECURSIVE FirstOccurrences(_, _)
FirstOccurrences(s, seen) ==
    IF s = <<>> THEN <<>>
    ELSE IF Head(s) \in seen
         THEN FirstOccurrences(Tail(s), seen)
         ELSE <<Head(s)>> \o FirstOccurrences(Tail(s), seen \cup {Head(s)})

Occurrences(s, l) == Cardinality({i \in 1..Len(s) : s[i] = l})

\* emotion_counts[l] is a double: 0.6 added once per face entry, then 0.4 added
\* once per voice entry (lines 123-131). VoteRounding[a + 1][b + 1] is what
\* IEEE-754 round-to-nearest leaves of that sum beyond its decimal value
\* (6a + 4b)/10, in units of 2^-54/10, for a and b from 0 to 12 (10 entries of each history are read):
\* 0.6 + 0.6 lies below 1.2 and 0.4 + 0.4 + 0.4 above it.
VoteRounding ==
    <<<<0, 4, 8, 32, 16, 0, -16, -32, -48, -64, -80, -96, -32>>,
      <<-4, 0, -16, -32, -48, -64, -80, -96, -112, -128, -64, 0, 64>>,
      <<-8, 16, 0, -16, -32, -48, -64, -80, -96, -32, 32, 96, 160>>,
      <<-32, -48, -64, -80, -96, -112, -128, -64, 0, 64, 128, 192, 256>>,
      <<-16, -32, -48, -64, -80, -96, -32, 32, 96, 160, 224, 288, 352>>,
      <<0, -16, -32, 32, 96, 160, 224, 288, 352, 416, 480, 544, 608>>,
      <<16, 0, 64, 128, 192, 256, 320, 384, 448, 512, 576, 640, 704>>,
      <<32, 96, 160, 224, 288, 352, 416, 480, 544, 608, 512, 576, 640>>,
      <<-32, 32, 96, 160, 224, 288, 352, 416, 320, 384, 448, 512, 576>>,
      <<-96, -32, 32, 96, 160, 224, 288, 192, 256, 320, 384, 448, 512>>,
      <<-160, -96, -32, 32, 96, 0, 64, 128, 192, 256, 320, 384, 448>>,
      <<-224, -160, -96, -32, -128, -64, 0, 64, 128, 192, 256, 320, 384>>,
      <<-288, -224, -160, -256, -192, -128, -64, 0, 64, 128, 192, 256, 320>>>>

\* the double (6a + 4b)/10 + rounding as one integer, in the order of the
\* doubles (the roundings are below 1000 units in size)
VoteDouble(a, b) == (face_vote * a + voice_vote * b) * 2000 + VoteRounding[a + 1][b + 1]

\* _estimate_emotional_state over the two histories (sequences of labels)
EmptyState == [valence |-> Frac(0, 1), arousal |-> Frac(0, 1), dominant_emotion |-> None]

estimate_emotional_state_neutral_default(emotions, voice_emotions) ==
    [valence |-> Frac(0, 1), arousal |-> Frac(0, 1),
     dominant_emotion |-> IF emotions = <<>> /\ voice_emotions = <<>>
                          THEN "neutral"
                          ELSE MaxItem(FirstOccurrences(emotions \o voice_emotions, {}),
                                       [l \in Range(emotions \o voice_emotions) |->
                                           Occurrences(emotions \o voice_emotions, l)])]

estimate_emotional_state(emotions, voice_emotions) ==
    IF emotions = <<>> /\ voice_emotions = <<>>
    THEN EmptyState
    ELSE LET recent_emotions == LastN(emotions, RecentWindow)
             recent_voice_emotions == LastN(voice_emotions, RecentWindow)
             keys == FirstOccurrences(recent_emotions \o recent_voice_emotions, {})
             emotion_counts ==
                 [l \in Range(keys) |->
                     VoteDouble(Occurrences(recent_emotions, l),
                                Occurrences(recent_voice_emotions, l))]
             dominant_emotion == IF keys # <<>> THEN MaxItem(keys, emotion_counts) ELSE None
             valence_sum ==
                 SumSeq([i \in 1..Len(recent_emotions) |->
                            emotion_weights[recent_emotions[i]].valence * face_vote])
                 + SumSeq([i \in 1..Len(recent_voice_emotions) |->
                            emotion_weights[recent_voice_emotions[i]].valence * voice_vote])
             arousal_sum ==
                 SumSeq([i \in 1..Len(recent_emotions) |->
                            emotion_weights[recent_emotions[i]].arousal * face_vote])
                 + SumSeq([i \in 1..Len(recent_voice_emotions) |->
                            emotion_weights[recent_voice_emotions[i]].arousal * voice_vote])
             count == face_vote * Len(recent_emotions)
                      + voice_vote * Len(recent_voice_emotions)
         IN  [valence |-> IF count > 0 THEN Frac(valence_sum, 10 * count) ELSE Frac(0, 1),
              arousal |-> IF count > 0 THEN Frac(arousal_sum, 10 * count) ELSE Frac(0, 1),
              dominant_emotion |-> dominant_emotion]

\* a follow-up suggestion; `text` names the template that produced it
Followup(p, t, x) == [priority |-> p, type |-> t, text |-> x]

FracLt(a, b) == a.num * b.den < b.num * a.den

\* _generate_emotion_followups (multimodal_integration.py:165-243)
generate_emotion_followups(face_analysis, voice_analysis) ==
    LET face_present == face_analysis.status # "empty" /\ HasEmotion(face_analysis)
        face_low == face_present /\ FracLt(face_analysis.confidence, Frac(60, 100))
        face_followups ==
            IF face_present /\ ~face_low
                  /\ FracLt(Frac(70, 100), face_analysis.confidence)
            THEN IF face_analysis.emotion \in {"sadness", "fear", "anger"}
                 THEN <<Followup("medium", "emotion_exploration",
                                 "face_" \o face_analysis.emotion)>>
                 ELSE IF face_analysis.emotion = "surprise"
                      THEN <<Followup("low", "emotion_exploration", "face_surprise")>>
                      ELSE <<>>
            ELSE <<>>
        voice_present == voice_analysis.status # "empty" /\ HasEmotion(voice_analysis)
        voice_followups ==
            IF voice_present
                  /\ ~FracLt(voice_analysis.confidence, Frac(65, 100))
                  /\ FracLt(Frac(70, 100), voice_analysis.confidence)
                  /\ voice_analysis.emotion \in {"sadness", "anger"}
            THEN <<Followup("medium", "voice_emotion_exploration",
                            (IF voice_analysis.transcribed_text # ""
                             THEN "voice_text_" ELSE "voice_tone_")
                            \o voice_analysis.emotion)>>
            ELSE <<>>
    IN  IF face_low
        THEN <<>>                       \* the early return at line 176
        ELSE face_followups \o voice_followups

IsPriority(f, p) == f.priority = p
Types(fs) == {fs[i].type : i \in 1..Len(fs)}

\* the merge of _integrate_analyses (multimodal_integration.py:90-108)
merge_followups_no_dedup(text_followups, emotion_followups) ==
    LET all == text_followups \o emotion_followups
        high_priority == SelectSeq(text_followups, LAMBDA f : IsPriority(f, "high"))
        medium_priority == SelectSeq(all, LAMBDA f : IsPriority(f, "medium"))
        low_priority == SelectSeq(all, LAMBDA f : IsPriority(f, "low"))
    IN  high_priority \o medium_priority \o low_priority

merge_followups(text_followups, emotion_followups) ==
    LET all == text_followups \o emotion_followups
        high_priority == SelectSeq(text_followups, LAMBDA f : IsPriority(f, "high"))
        medium_priority ==
            SelectSeq(all, LAMBDA f : /\ IsPriority(f, "medium")
                                      /\ f.type \notin Types(high_priority))
        low_priority ==
            SelectSeq(all, LAMBDA f : /\ IsPriority(f, "low")
                                      /\ f.type \notin Types(high_priority \o medium_priority))
    IN  high_priority \o medium_priority \o low_priority

\* _integrate_analyses: the result handed back by analyze_response
integrate_analyses(text_followups, face_analysis, voice_analysis, emotions, voice_emotions) ==
    [status |-> "returned",
     face_analysis |-> face_analysis,
     voice_analysis |-> voice_analysis,
     emotional_state |-> estimate_emotional_state(emotions, voice_emotions),
     suggested_followups |->
         merge_followups(text_followups,
                         generate_emotion_followups(face_analysis, voice_analysis))]

(***************************************************************************)
(* State.                                                                  *)
(***************************************************************************)
VARIABLES
    \* EmotionAnalyzer
    frame_buffer,            \* the FrameWindow: preprocessed frames, oldest first
    model_loaded,            \* self.model is not None
    \* MultimodalAnalyzer
    session_emotions,        \* face history: labels, oldest first
    session_voice_emotions,  \* voice history: labels, oldest first
    analysis_result,         \* what the last analyze_response call returned
    \* ParallelAnalyzer
    video_running, audio_running,
    video_thread, audio_thread,   \* 0 for None, else the index of the worker
    frame_queue, processed_frames, current_emotion,
    speaking, speech_frames,
    latest_results, results_callback,
    \* the workers, indexed by the start_processing call that created them
    vpc, vframe,             \* video worker: position, frame in hand
    apc, silent_frames, speech_frames_count,   \* audio worker: position, locals
    via, wav, speech_analysis,                 \* locals of _process_speech
    \* the caller's threads
    ppc, pframe,             \* camera thread inside add_frame
    cpc,                     \* control thread inside stop_processing
    \* the environment so far
    starts, chunks_read, frames_offered, heard,
    \* observations of the run
    finalized, n_finalize, n_callbacks, join_timeouts, resets, reset_seen,
    emotion_call,
    \* a call of VoiceAnalyzer.analyze_emotion on its own
    voice_input, voice_result,
    \* a call of analyze_acoustic_emotion / analyze_text_sentiment on its own
    acoustic_input, acoustic_result, sentiment_input, sentiment_result,
    \* the inputs of the last analyze_response / _integrate_analyses call
    fuse_input

face_vars == <<frame_buffer, model_loaded>>
session_vars == <<session_emotions, session_voice_emotions, analysis_result, fuse_input,
                 resets, reset_seen, emotion_call>>
orch_vars == <<video_running, audio_running, video_thread, audio_thread,
               results_callback, starts, cpc, join_timeouts>>
queue_vars == <<frame_queue, ppc, pframe, frames_offered>>
video_vars == <<processed_frames, current_emotion, vpc, vframe>>
audio_vars == <<speaking, speech_frames, latest_results, apc, silent_frames,
                speech_frames_count, via, wav, speech_analysis, chunks_read, heard,
                finalized, n_finalize, n_callbacks>>
voice_vars == <<voice_input, voice_result, acoustic_input, acoustic_result,
               sentiment_input, sentiment_result>>

vars == <<face_vars, session_vars, orch_vars, queue_vars, video_vars, audio_vars,
          voice_vars>>

Workers == 1..MaxStarts

NoWav == [frames |-> <<>>, features_ok |-> FALSE]
\* the latest finalize event: the worker, the utterance, and what was done
\* for it so far: calls of analyze_emotion (scored), whether line 249 found a
\* transcript and a frame (fusable), whether analyze_response ran (fused),
\* whether the callback was invoked, the step that raised ("no" for none) and
\* whether _process_speech has returned
NoFinalize == [by |-> 0, why |-> "none", frames |-> <<>>, scored |-> 0,
               voice_status |-> "none", transcript |-> "", face |-> FALSE,
               fused |-> FALSE, callback |-> FALSE, raised |-> "no",
               returned |-> FALSE]
NoFuseInput == [text_followups |-> <<>>, face_image |-> NoFrame,
                face_analysis |-> EmptyAnalysis, voice_analysis |-> EmptyAnalysis]
NoResult == [face_analysis |-> EmptyAnalysis, voice_analysis |-> EmptyAnalysis,
             emotional_state |-> EmptyState, suggested_followups |-> <<>>,
             status |-> "none"]
NoVoiceInput == [outcome |-> "none", text |-> "", compound |-> 0, anger_kw |-> FALSE,
                 fear_kw |-> FALSE,
                 acoustic |-> [all_emotions |-> [neutral |-> 1], den |-> 1]]
NoVoiceResult == [status |-> "none", emotion |-> None, confidence |-> Frac(0, 1),
                  transcribed_text |-> "",
                  combined |-> [l \in VoiceLabelSet |-> 0], combined_den |-> 1,
                  all_emotions |-> [l \in VoiceLabelSet |-> Frac(0, 1)]]
\* a call of get_emotion: the window length and model it found, its result
NoEmotionCall == [buffered |-> 0, loaded |-> FALSE, prediction_raises |-> FALSE,
                  result |-> EmptyAnalysis]
\* no call of the acoustic scorer / of the sentiment scorer yet
NoFeatures == [present |-> FALSE, energy |-> 0, zero_crossing_rate |-> 0, pitch_mean |-> 0,
               pitch_std |-> 0, speech_rate |-> 0, spectral_centroid |-> 0, tempo |-> 0]
NoAcoustic == [all_emotions |-> [neutral |-> 0], den |-> 0]
NoSentimentInput == [text |-> "none", compound |-> 0, anger_kw |-> FALSE, fear_kw |-> FALSE]
NoSentiment == [emotion |-> None, confidence |-> Frac(0, 1)]
\* `run_from`: the number of chunks read before the latest start_processing
NoHeard == [shape |-> "", loud |-> 0, quiet |-> 0, last |-> "none", run_from |-> 0]

\* the state after the constructors (parallel_analyzer.py:12-46,
\* emotion_analyzer.py:10-24, multimodal_integration.py:14-31); load_model may
\* leave self.model None
InitFace == frame_buffer = <<>> /\ model_loaded \in BOOLEAN
InitSession ==
    /\ session_emotions = <<>>
    /\ session_voice_emotions = <<>>
    /\ analysis_result = NoResult
    /\ fuse_input = NoFuseInput
    /\ resets = 0
    /\ reset_seen = FALSE
    /\ emotion_call = NoEmotionCall
InitOrch ==
    /\ video_running = FALSE /\ audio_running = FALSE
    /\ video_thread = 0 /\ audio_thread = 0
    /\ results_callback = FALSE
    /\ starts = 0
    /\ cpc = "idle"
    /\ join_timeouts = {}
InitQueue ==
    /\ frame_queue = <<>>
    /\ ppc = "idle" /\ pframe = NoFrame
    /\ frames_offered = 0
InitVideo ==
    /\ processed_frames = <<>>
    /\ current_emotion = EmptyAnalysis
    /\ vpc = [k \in Workers |-> "unborn"]
    /\ vframe = [k \in Workers |-> NoFrame]
InitAudio ==
    /\ speaking = FALSE
    /\ speech_frames = <<>>
    /\ latest_results = NoResult
    /\ apc = [k \in Workers |-> "unborn"]
    /\ silent_frames = [k \in Workers |-> 0]
    /\ speech_frames_count = [k \in Workers |-> 0]
    /\ via = [k \in Workers |-> "none"]
    /\ wav = [k \in Workers |-> NoWav]
    /\ speech_analysis = [k \in Workers |-> EmptyAnalysis]
    /\ chunks_read = 0
    /\ heard = NoHeard
    /\ finalized = NoFinalize
    /\ n_finalize = 0
    /\ n_callbacks = 0
InitScorers ==
    /\ acoustic_input = NoFeatures
    /\ acoustic_result = NoAcoustic
    /\ sentiment_input = NoSentimentInput
    /\ sentiment_result = NoSentiment
InitVoice == voice_input = NoVoiceInput /\ voice_result = NoVoiceResult /\ InitScorers

Init ==
    /\ InitFace /\ InitSession /\ InitOrch /\ InitQueue /\ InitVideo /\ InitAudio
    /\ InitVoice

(***************************************************************************)
(* MultimodalAnalyzer.analyze_response and reset_session.                  *)
(***************************************************************************)
\* the face part of analyze_response (lines 57-66): the new window, the face
\* analysis and the new face history
FaceStep(face_image, cv_ok, prediction) ==
    IF face_image = NoFrame
    THEN [buffer |-> frame_buffer, analysis |-> EmptyAnalysis,
          emotions |-> session_emotions]
    ELSE LET buffer == add_frame(frame_buffer, face_image, cv_ok)
             analysis == IF Len(buffer) >= FrameWindowSize
                         THEN get_emotion(buffer, model_loaded, prediction)
                         ELSE EmptyAnalysis
         IN  [buffer |-> buffer, analysis |-> analysis,
              emotions |-> IF HasEmotion(analysis)
                           THEN Append(session_emotions, analysis.emotion)
                           ELSE session_emotions]

\* the voice part (lines 68-73): `voice` is what analyze_emotion returned, or
\* EmptyAnalysis when no voice file was given
VoiceStep(voice) ==
    IF HasEmotion(voice)
    THEN Append(session_voice_emotions, voice.emotion)
    ELSE session_voice_emotions

\* analyze_response(text, face_image, voice_file), lines 33-78
analyze_response(text_followups, face_image, cv_ok, prediction, voice) ==
    LET face == FaceStep(face_image, cv_ok, prediction)
        voice_emotions == VoiceStep(voice)
    IN  /\ frame_buffer' = face.buffer
        /\ session_emotions' = face.emotions
        /\ session_voice_emotions' = voice_emotions
        /\ UNCHANGED <<resets, reset_seen, emotion_call>>
        /\ fuse_input' = [text_followups |-> text_followups, face_image |-> face_image,
                          face_analysis |-> face.analysis, voice_analysis |-> voice]
        /\ analysis_result' =
               integrate_analyses(text_followups, face.analysis, voice,
                                  face.emotions, voice_emotions)

\* a reset that forgets emotion_analyzer.reset()
reset_session_keeps_window ==
    /\ session_emotions' = <<>>
    /\ session_voice_emotions' = <<>>
    /\ frame_buffer' = frame_buffer

\* reset_session (lines 263-270)
reset_session ==
    /\ session_emotions' = <<>>
    /\ session_voice_emotions' = <<>>
    /\ frame_buffer' = <<>>

(***************************************************************************)
(* ParallelAnalyzer: constants of the constructor (lines 21-38).           *)
(***************************************************************************)
frame_queue_maxsize == 10
processed_frames_maxlen == 30
sample_rate == 16000
chunk_size == 1024
\* seconds
silence_limit == 1
speech_limit == 10
\* lines 155-156: int(limit * sample_rate / chunk_size)
max_silent_frames == (silence_limit * sample_rate) \div chunk_size
max_speech_frames == (speech_limit * sample_rate) \div chunk_size

\* deque(maxlen=30).append
DequeAppend(d, x) ==
    IF Len(d) >= processed_frames_maxlen THEN Append(Tail(d), x) ELSE Append(d, x)

(***************************************************************************)
(* start_processing and stop_processing (control thread).                  *)
(***************************************************************************)
\* start_processing(callback), lines 48-64: worker k is the pair of threads
\* this call creates
start_processing(cb) ==
    LET k == starts + 1
    IN  /\ cpc = "idle"
        /\ starts < MaxStarts
        /\ starts' = k
        /\ results_callback' = cb
        /\ video_running' = TRUE
        /\ video_thread' = k
        /\ vpc' = [vpc EXCEPT ![k] = "loop"]
        /\ audio_running' = TRUE
        /\ audio_thread' = k
        /\ apc' = [apc EXCEPT ![k] = "loop"]
        /\ heard' = [heard EXCEPT !.run_from = chunks_read]
        /\ UNCHANGED <<cpc, join_timeouts>>
        /\ UNCHANGED <<face_vars, session_vars, queue_vars, voice_vars,
                       processed_frames, current_emotion, vframe,
                       speaking, speech_frames, latest_results, silent_frames,
                       speech_frames_count, via, wav, speech_analysis, chunks_read,
                       finalized, n_finalize, n_callbacks>>

orch_rest == <<face_vars, session_vars, queue_vars, video_vars, audio_vars, voice_vars>>

\* lines 68-69
StopFlags ==
    /\ cpc = "idle"
    /\ video_running' = FALSE
    /\ audio_running' = FALSE
    /\ cpc' = "join_video"
    /\ join_timeouts' = {}
    /\ UNCHANGED <<video_thread, audio_thread, results_callback, starts, orch_rest>>

ThreadOver(pc, t) == IF t = 0 THEN TRUE ELSE pc[t] = "done"

\* Thread.join(timeout=1.0) returns when the thread has ended, or after the
\* timeout while it is still alive; it raises in neither case
join_blocking(pc, t, who) ==
    /\ ThreadOver(pc, t)
    /\ join_timeouts' = join_timeouts

join(pc, t, who) ==
    \/ /\ ThreadOver(pc, t)
       /\ join_timeouts' = join_timeouts
    \/ /\ ~ThreadOver(pc, t)
       /\ join_timeouts' = join_timeouts \cup {who}

\* lines 71-72
JoinVideo ==
    /\ cpc = "join_video"
    /\ join(vpc, video_thread, "video")
    /\ cpc' = "join_audio"
    /\ UNCHANGED <<video_running, audio_running, video_thread, audio_thread,
                   results_callback, starts, orch_rest>>

\* lines 74-77
JoinAudio ==
    /\ cpc = "join_audio"
    /\ join(apc, audio_thread, "audio")
    /\ cpc' = "idle"
    /\ UNCHANGED <<video_running, audio_running, video_thread, audio_thread,
                   results_callback, starts, orch_rest>>

(***************************************************************************)
(* add_frame (camera thread), lines 79-82, in its two steps: the full()    *)
(* test, then the blocking put().                                          *)
(***************************************************************************)
queue_rest == <<face_vars, session_vars, orch_vars, video_vars, audio_vars, voice_vars>>

add_frame_check_always_put(frame) ==
    /\ ppc' = "put"
    /\ pframe' = frame

add_frame_check(frame) ==
    IF Len(frame_queue) >= frame_queue_maxsize
    THEN /\ ppc' = "idle"          \* full: the frame is dropped
         /\ pframe' = NoFrame
    ELSE /\ ppc' = "put"
         /\ pframe' = frame

AddFrameCheck ==
    /\ ppc = "idle"
    /\ frames_offered < MaxFrames
    /\ frames_offered' = frames_offered + 1
    /\ add_frame_check(Image(frames_offered + 1, FALSE))
    /\ UNCHANGED <<frame_queue, queue_rest>>

\* Queue.put blocks while the queue is full
AddFramePut ==
    /\ ppc = "put"
    /\ Len(frame_queue) < frame_queue_maxsize
    /\ frame_queue' = Append(frame_queue, pframe)
    /\ ppc' = "idle"
    /\ pframe' = NoFrame
    /\ UNCHANGED <<frames_offered, queue_rest>>

(***************************************************************************)
(* _process_video (video worker k), lines 90-136.                          *)
(***************************************************************************)
video_rest == <<model_loaded, session_vars, orch_vars, ppc, pframe, frames_offered,
                audio_vars, voice_vars>>

\* line 92, the loop test alone: the worker has read the flag as set and is
\* inside the loop body, about to look at the queue
VideoLoopTest_flag_ignored(k) ==
    /\ vpc[k] = "loop"
    /\ vpc' = [vpc EXCEPT ![k] = "in_loop"]
    /\ UNCHANGED <<frame_queue, frame_buffer, processed_frames, current_emotion, vframe,
                   video_rest>>

VideoLoopTest(k) ==
    /\ vpc[k] = "loop"
    /\ video_running
    /\ vpc' = [vpc EXCEPT ![k] = "in_loop"]
    /\ UNCHANGED <<frame_queue, frame_buffer, processed_frames, current_emotion, vframe,
                   video_rest>>

\* lines 94 and 130-132: the queue is empty, the worker sleeps and loops
VideoSleep(k) ==
    /\ vpc[k] = "in_loop"
    /\ frame_queue = <<>>
    /\ vpc' = [vpc EXCEPT ![k] = "loop"]
    /\ UNCHANGED <<frame_queue, frame_buffer, processed_frames, current_emotion, vframe,
                   video_rest>>

\* lines 94-101 and 124-129: take a frame, add it to the window; with fewer
\* than 3 frames buffered the original frame is stored right away. Taken
\* from "loop" the step includes the loop test of line 92.
VideoTake(k, cv_ok) ==
    /\ vpc[k] = "in_loop" \/ (vpc[k] = "loop" /\ video_running)
    /\ frame_queue # <<>>
    /\ LET frame == Head(frame_queue)
           buffer == add_frame(frame_buffer, frame, cv_ok)
       IN  /\ frame_queue' = Tail(frame_queue)
           /\ frame_buffer' = buffer
           /\ IF Len(buffer) >= FrameWindowSize
              THEN /\ vpc' = [vpc EXCEPT ![k] = "infer"]
                   /\ vframe' = [vframe EXCEPT ![k] = frame]
                   /\ UNCHANGED processed_frames
              ELSE /\ processed_frames' = DequeAppend(processed_frames, frame)
                   /\ vpc' = [vpc EXCEPT ![k] = "loop"]
                   /\ UNCHANGED vframe
    /\ UNCHANGED <<current_emotion, video_rest>>

\* lines 102-123: the inference returns; a result with an emotion is stored
\* and the annotated copy of the frame is appended
VideoInfer(k, prediction) ==
    /\ vpc[k] = "infer"
    /\ LET emotion_result == get_emotion(frame_buffer, model_loaded, prediction)
       IN  IF HasEmotion(emotion_result)
           THEN /\ current_emotion' = emotion_result
                /\ processed_frames' =
                       DequeAppend(processed_frames, Image(vframe[k].src, TRUE))
           ELSE UNCHANGED <<current_emotion, processed_frames>>
    /\ vpc' = [vpc EXCEPT ![k] = "loop"]
    /\ vframe' = [vframe EXCEPT ![k] = NoFrame]
    /\ UNCHANGED <<frame_queue, frame_buffer, video_rest>>

\* line 92: the loop test fails
VideoExit(k) ==
    /\ vpc[k] = "loop"
    /\ ~video_running
    /\ vpc' = [vpc EXCEPT ![k] = "done"]
    /\ UNCHANGED <<frame_queue, frame_buffer, processed_frames, current_emotion, vframe,
                   video_rest>>

(***************************************************************************)
(* _process_audio and _process_speech (audio worker k), lines 138-289.     *)
(***************************************************************************)
audio_rest == <<face_vars, session_vars, orch_vars, queue_vars, video_vars, voice_vars>>

\* the energies read so far, as a shape: "" (none), "L" (loud chunks only),
\* "LQ" (loud chunks, then quiet ones), "X" (anything else), with the counts
Hear(h, e) ==
    IF e = "loud"
    THEN IF h.shape \in {"", "L"}
         THEN [shape |-> "L", loud |-> h.loud + 1, quiet |-> 0, last |-> e, run_from |-> h.run_from]
         ELSE [shape |-> "X", loud |-> 0, quiet |-> 0, last |-> e, run_from |-> h.run_from]
    ELSE IF h.shape \in {"L", "LQ"}
         THEN [shape |-> "LQ", loud |-> h.loud, quiet |-> h.quiet + 1, last |-> e, run_from |-> h.run_from]
         ELSE [shape |-> "X", loud |-> 0, quiet |-> 0, last |-> e, run_from |-> h.run_from]

\* the call of _process_speech from the loop: the finalize event
Finalize(k, frames, why) ==
    /\ apc' = [apc EXCEPT ![k] = "speech_save"]
    /\ via' = [via EXCEPT ![k] = why]
    /\ n_finalize' = n_finalize + 1
    /\ finalized' = [NoFinalize EXCEPT !.by = k, !.why = why, !.frames = frames]

\* the silence test of line 195
SilenceReached_late(silent) == silent > max_silent_frames
SilenceReached(silent) == silent >= max_silent_frames

\* lines 161-199: one chunk is read and handled, up to the call of
\* _process_speech; e is "loud" when energy_normalized > silence_threshold
AudioReadUpTo(k, e, limit) ==
    /\ apc[k] = "loop"
    /\ audio_running
    /\ chunks_read < limit
    /\ chunks_read' = chunks_read + 1
    /\ heard' = Hear(heard, e)
    /\ LET data == chunks_read + 1
       IN  IF e = "loud"
           THEN LET frames == Append(IF speaking THEN speech_frames ELSE <<>>, data)
                    count == speech_frames_count[k] + 1
                IN  /\ speaking' = TRUE
                    /\ speech_frames' = frames
                    /\ speech_frames_count' = [speech_frames_count EXCEPT ![k] = count]
                    /\ silent_frames' = [silent_frames EXCEPT ![k] = 0]
                    /\ IF count >= max_speech_frames
                       THEN Finalize(k, frames, "cap")
                       ELSE UNCHANGED <<apc, via, n_finalize, finalized>>
           ELSE IF speaking
                THEN LET frames == Append(speech_frames, data)
                         silent == silent_frames[k] + 1
                     IN  /\ speech_frames' = frames
                         /\ silent_frames' = [silent_frames EXCEPT ![k] = silent]
                         /\ speech_frames_count' =
                                [speech_frames_count EXCEPT ![k] = @ + 1]
                         /\ UNCHANGED speaking
                         /\ IF SilenceReached(silent)
                            THEN Finalize(k, frames, "silence")
                            ELSE UNCHANGED <<apc, via, n_finalize, finalized>>
                ELSE UNCHANGED <<speaking, speech_frames, speech_frames_count,
                                 silent_frames, apc, via, n_finalize, finalized>>
    /\ UNCHANGED <<latest_results, wav, speech_analysis, n_callbacks, audio_rest>>

\* the stream gives at most MaxChunks chunks
AudioRead(k, e) == AudioReadUpTo(k, e, MaxChunks)

\* lines 282-284 and 286-289 (both end the same way), then the return to the
\* loop: lines 186 and 198-199
SpeechReturn_still_speaking(k, fin) ==
    /\ speaking' = TRUE
    /\ speech_frames' = <<>>
    /\ speech_frames_count' = [speech_frames_count EXCEPT ![k] = 0]
    /\ silent_frames' = [silent_frames EXCEPT ![k] = 0]
    /\ apc' = [apc EXCEPT ![k] = "loop"]
    /\ via' = [via EXCEPT ![k] = "none"]
    /\ wav' = [wav EXCEPT ![k] = NoWav]
    /\ speech_analysis' = [speech_analysis EXCEPT ![k] = EmptyAnalysis]
    /\ finalized' = [fin EXCEPT !.returned = TRUE]

SpeechReturn(k, fin) ==
    /\ speaking' = FALSE
    /\ speech_frames' = <<>>
    /\ speech_frames_count' = [speech_frames_count EXCEPT ![k] = 0]
    /\ silent_frames' = [silent_frames EXCEPT ![k] = IF via[k] = "silence" THEN 0 ELSE @]
    /\ apc' = [apc EXCEPT ![k] = "loop"]
    /\ via' = [via EXCEPT ![k] = "none"]
    /\ wav' = [wav EXCEPT ![k] = NoWav]
    /\ speech_analysis' = [speech_analysis EXCEPT ![k] = EmptyAnalysis]
    /\ finalized' = [fin EXCEPT !.returned = TRUE]

\* lines 216-232: the empty test, then the utterance is written to a file;
\* write_ok says whether the write succeeds; features_ok whether
\* extract_features will find features in the file
\* the same, but a failed write ends the worker where it stands
SpeechSave_failure_ends_worker(k, write_ok, features_ok) ==
    /\ apc[k] = "speech_save"
    /\ IF speech_frames # <<>> /\ write_ok
       THEN /\ wav' = [wav EXCEPT ![k] = [frames |-> speech_frames,
                                          features_ok |-> features_ok]]
            /\ apc' = [apc EXCEPT ![k] = "speech_score"]
            /\ UNCHANGED finalized
       ELSE /\ apc' = [apc EXCEPT ![k] = "done"]
            /\ finalized' = [finalized EXCEPT !.raised = "save", !.returned = TRUE]
            /\ UNCHANGED wav
    /\ UNCHANGED <<speaking, speech_frames, speech_frames_count, silent_frames, via,
                   speech_analysis, latest_results, chunks_read, heard, n_finalize,
                   n_callbacks, audio_rest>>

SpeechSave(k, write_ok, features_ok) ==
    /\ apc[k] = "speech_save"
    /\ IF speech_frames = <<>>
       THEN \* lines 216-218, then lines 186 / 198-199
            /\ speaking' = FALSE
            /\ speech_frames_count' = [speech_frames_count EXCEPT ![k] = 0]
            /\ silent_frames' =
                   [silent_frames EXCEPT ![k] = IF via[k] = "silence" THEN 0 ELSE @]
            /\ apc' = [apc EXCEPT ![k] = "loop"]
            /\ via' = [via EXCEPT ![k] = "none"]
            /\ finalized' = [finalized EXCEPT !.returned = TRUE]
            /\ UNCHANGED <<speech_frames, wav, speech_analysis>>
       ELSE IF write_ok
            THEN /\ wav' = [wav EXCEPT ![k] = [frames |-> speech_frames,
                                               features_ok |-> features_ok]]
                 /\ apc' = [apc EXCEPT ![k] = "speech_score"]
                 /\ UNCHANGED <<speaking, speech_frames, speech_frames_count,
                                silent_frames, via, speech_analysis, finalized>>
            ELSE SpeechReturn(k, [finalized EXCEPT !.raised = "save"])
    /\ UNCHANGED <<latest_results, chunks_read, heard, n_finalize, n_callbacks,
                   audio_rest>>

\* what analyze_emotion returns on the file of worker k when the external
\* steps (transcription, sentiment) give `v`: an error when the file has no
\* features
\* what analyze_acoustic_emotion gives when it has no features to read
AcousticFallback == [all_emotions |-> [neutral |-> 1], den |-> 1]

ScoreFile_ignores_features(k, v) == v

ScoreFile(k, v) ==
    IF wav[k].features_ok
    THEN v
    ELSE VoiceView(analyze_emotion("nofeatures", "",
                                   analyze_text_sentiment("", 0, FALSE, FALSE),
                                   AcousticFallback))

\* lines 234-249: the utterance is scored; fusion follows when there is a
\* transcript and a processed frame
SpeechScore(k, v) ==
    /\ apc[k] = "speech_score"
    /\ LET speech == ScoreFile(k, v)
       IN  IF speech.transcribed_text # "" /\ processed_frames # <<>>
           THEN /\ speech_analysis' = [speech_analysis EXCEPT ![k] = speech]
                /\ finalized' = [finalized EXCEPT !.scored = @ + 1,
                                                  !.voice_status = speech.status,
                                                  !.transcript = speech.transcribed_text,
                                                  !.face = TRUE]
                /\ apc' = [apc EXCEPT ![k] = "speech_fuse"]
                /\ UNCHANGED <<speaking, speech_frames, speech_frames_count,
                               silent_frames, via, wav>>
           ELSE SpeechReturn(k, [finalized EXCEPT !.scored = @ + 1,
                                                  !.voice_status = speech.status,
                                                  !.transcript = speech.transcribed_text,
                                                  !.face = processed_frames # <<>>])
    /\ UNCHANGED <<latest_results, chunks_read, heard, n_finalize, n_callbacks,
                   audio_rest>>

\* lines 250-259: analyze_response on the transcript, the latest processed
\* frame and the file (which scores the file a second time), then
\* generate_response, which may raise
SpeechFuse(k, tf, cv_ok, prediction, v, raises) ==
    /\ apc[k] = "speech_fuse"
    /\ analyze_response(tf, processed_frames[Len(processed_frames)], cv_ok, prediction,
                        ScoreFile(k, v))
    /\ IF raises
       THEN /\ SpeechReturn(k, [finalized EXCEPT !.scored = @ + 1, !.fused = TRUE,
                                                     !.raised = "respond"])
            /\ UNCHANGED latest_results
       ELSE /\ latest_results' = analysis_result'
            /\ finalized' = [finalized EXCEPT !.scored = @ + 1, !.fused = TRUE]
            /\ apc' = [apc EXCEPT ![k] = "speech_callback"]
            /\ UNCHANGED <<speaking, speech_frames, speech_frames_count, silent_frames,
                           via, wav, speech_analysis>>
    /\ UNCHANGED <<chunks_read, heard, n_finalize, n_callbacks, model_loaded,
                   orch_vars, queue_vars, video_vars, voice_vars>>

\* lines 261-284: the callback, when one is registered, is called here; it
\* may raise
SpeechCallback_handed_off(k, raises) ==
    /\ apc[k] = "speech_callback"
    /\ UNCHANGED n_callbacks
    /\ SpeechReturn(k, finalized)
    /\ UNCHANGED <<latest_results, chunks_read, heard, n_finalize, audio_rest>>

SpeechCallback(k, raises) ==
    /\ apc[k] = "speech_callback"
    /\ IF results_callback
       THEN /\ n_callbacks' = n_callbacks + 1
            /\ SpeechReturn(k, [finalized EXCEPT
                                    !.callback = TRUE,
                                    !.raised = IF raises THEN "callback" ELSE "no"])
       ELSE /\ UNCHANGED n_callbacks
            /\ SpeechReturn(k, finalized)
    /\ UNCHANGED <<latest_results, chunks_read, heard, n_finalize, audio_rest>>

\* line 161: the loop test fails; lines 207-212
AudioExit(k) ==
    /\ apc[k] = "loop"
    /\ ~audio_running
    /\ apc' = [apc EXCEPT ![k] = "done"]
    /\ UNCHANGED <<speaking, speech_frames, latest_results, silent_frames,
                   speech_frames_count, via, wav, speech_analysis, chunks_read, heard,
                   finalized, n_finalize, n_callbacks, audio_rest>>

\* line 163 raises (the stream fails): lines 204-212 end the worker
AudioStreamError(k) ==
    /\ apc[k] = "loop"
    /\ audio_running
    /\ apc' = [apc EXCEPT ![k] = "done"]
    /\ UNCHANGED <<speaking, speech_frames, latest_results, silent_frames,
                   speech_frames_count, via, wav, speech_analysis, chunks_read, heard,
                   finalized, n_finalize, n_callbacks, audio_rest>>

(***************************************************************************)
(* reset_session called by the control thread while the pipeline runs      *)
(* (run_voice_assistant.py:318-324).                                       *)
(***************************************************************************)
ResetConversation ==
    /\ cpc = "idle"
    /\ resets < MaxResets
    /\ resets' = resets + 1
    /\ reset_seen' = speaking
    /\ reset_session
    /\ UNCHANGED <<model_loaded, analysis_result, fuse_input, emotion_call, orch_vars, queue_vars,
                   video_vars, audio_vars, voice_vars>>

(***************************************************************************)
(* The synchronous use of the fusion engine: a caller that calls           *)
(* analyze_response and reset_session in any order.                        *)
(***************************************************************************)
\* the acoustic results and transcripts tried by the session-level
\* specifications: analyze_emotion applied to a few inputs
Acoustic(a, h, s, f, n) ==
    [all_emotions |-> [anger |-> a, happiness |-> h, sadness |-> s, fear |-> f,
                       neutral |-> n],
     den |-> a + h + s + f + n]

SessionVoices ==
    {VoiceView(analyze_emotion("ok", "t", analyze_text_sentiment("t", -80, FALSE, FALSE),
                               Acoustic(5, 1, 2, 1, 1))),
     VoiceView(analyze_emotion("ok", "t", analyze_text_sentiment("t", 10, FALSE, FALSE),
                               Acoustic(1, 1, 6, 1, 1))),
     VoiceView(analyze_emotion("ok", "", analyze_text_sentiment("", 0, FALSE, FALSE),
                               Acoustic(1, 1, 6, 1, 1))),
     VoiceView(analyze_emotion("ok", "t", analyze_text_sentiment("t", 90, FALSE, FALSE),
                               AcousticFallback)),
     VoiceView(analyze_emotion("nofeatures", "", analyze_text_sentiment("", 0, FALSE, FALSE),
                               AcousticFallback))}

SessionPredictions ==
    {pr \in Predictions : pr.raises \/ (/\ pr.label \in {"happy", "sadness"}
                                       /\ pr.confidence = 71)}
SessionFrames == {Image(1, FALSE)}
SessionFollowups == {<<>>, <<Followup("high", "risk_assessment", "text_risk")>>}

Fuse ==
    /\ Len(session_emotions) < MaxHist
    /\ Len(session_voice_emotions) < MaxHist
    /\ \E tf \in SessionFollowups, fi \in SessionFrames \cup {NoFrame},
          cv_ok \in BOOLEAN, pr \in SessionPredictions,
          v \in SessionVoices \cup {EmptyAnalysis} :
           analyze_response(tf, fi, cv_ok, pr, v)
    /\ UNCHANGED <<model_loaded, orch_vars, queue_vars, video_vars, audio_vars, voice_vars>>

NextFusion == Fuse \/ ResetConversation
SpecFusion == Init /\ [][NextFusion]_vars

(***************************************************************************)
(* VoiceAnalyzer.analyze_emotion on its own: one call on inputs drawn from *)
(* bounded sets.                                                           *)
(***************************************************************************)
\* VADER compound scores tried, in hundredths
Compounds == {-100, -80, -50, -49, 0, 50, 80, 90}

\* the acoustic distributions in multiples of 1/AcousticGrain
AcousticDistributions ==
    {Acoustic(a, h, s, f, AcousticGrain - (a + h + s + f)) :
        <<a, h, s, f>> \in
            {q \in (0..AcousticGrain) \X (0..AcousticGrain) \X (0..AcousticGrain)
                       \X (0..AcousticGrain) : q[1] + q[2] + q[3] + q[4] <= AcousticGrain}}

\* (compound, anger keyword, fear keyword) of the transcripts tried: the
\* keywords are read only when compound <= -0.5
Transcripts ==
    {t \in Compounds \X BOOLEAN \X BOOLEAN : (t[2] \/ t[3]) => t[1] = -80}

VoiceInputs ==
    {[outcome |-> "ok", text |-> "t", compound |-> t[1], anger_kw |-> t[2],
      fear_kw |-> t[3], acoustic |-> ac] :
        t \in Transcripts, ac \in AcousticDistributions \cup {AcousticFallback}}
    \cup {[outcome |-> o, text |-> "", compound |-> 0, anger_kw |-> FALSE,
           fear_kw |-> FALSE, acoustic |-> ac] :
             o \in {"ok", "nofile", "nofeatures", "raises"},
             ac \in AcousticDistributions \cup {AcousticFallback}}

TextSentimentOf(in) == analyze_text_sentiment(in.text, in.compound, in.anger_kw, in.fear_kw)

AnalyzeEmotion ==
    /\ voice_input # NoVoiceInput
    /\ voice_result = NoVoiceResult
    /\ voice_result' = analyze_emotion(voice_input.outcome, voice_input.text,
                                       TextSentimentOf(voice_input), voice_input.acoustic)
    /\ UNCHANGED <<voice_input, acoustic_input, acoustic_result, sentiment_input,
                   sentiment_result, face_vars, session_vars, orch_vars, queue_vars,
                   video_vars, audio_vars>>

InitVoiceCall ==
    /\ InitFace /\ InitSession /\ InitOrch /\ InitQueue /\ InitVideo /\ InitAudio
    /\ voice_input \in VoiceInputs
    /\ voice_result = NoVoiceResult
    /\ InitScorers

NextVoice == AnalyzeEmotion
SpecVoice == InitVoiceCall /\ [][NextVoice]_vars

(***************************************************************************)
(* _integrate_analyses on its own: one call on inputs drawn from bounded   *)
(* sets (the follow-up merge).                                             *)
(***************************************************************************)
TextPriorities == {"high", "medium", "low"}
TextTypes == {"risk_assessment", "emotion_exploration", "voice_emotion_exploration"}

\* the sequences of at most MaxFollowups text-intent follow-ups; the text of
\* an item names its position
RECURSIVE TextFollowupSeqs(_)
TextFollowupSeqs(n) ==
    IF n = 0 THEN {<<>>}
    ELSE LET shorter == TextFollowupSeqs(n - 1)
         IN  shorter \cup
             {Append(fs, Followup(p, t, <<"text", Len(fs) + 1>>)) :
                 fs \in {q \in shorter : Len(q) = n - 1},
                 p \in TextPriorities, t \in TextTypes}

MergeFaces ==
    {EmptyAnalysis, Waiting, ErrorResult} \cup
    {Estimate(l, c) : l \in Range(FaceLabels), c \in {59, 60, 71}}

MergeVoices ==
    SessionVoices \cup
    {VoiceView(analyze_emotion("ok", tx, analyze_text_sentiment("t", -90, ak, FALSE),
                               Acoustic(1, 1, 6, 1, 1))) :
        tx \in {"", "t"}, ak \in BOOLEAN}
    \cup {EmptyAnalysis}

InitMergeCall ==
    /\ InitFace /\ InitOrch /\ InitQueue /\ InitVideo /\ InitAudio /\ InitVoice
    /\ session_emotions = <<>>
    /\ session_voice_emotions = <<>>
    /\ analysis_result = NoResult
    /\ resets = 0
    /\ reset_seen = FALSE
    /\ emotion_call = NoEmotionCall
    /\ fuse_input \in [text_followups : TextFollowupSeqs(MaxFollowups),
                       face_image : {NoFrame},
                       face_analysis : MergeFaces,
                       voice_analysis : MergeVoices]

IntegrateAnalyses ==
    /\ analysis_result = NoResult
    /\ analysis_result' =
           integrate_analyses(fuse_input.text_followups, fuse_input.face_analysis,
                              fuse_input.voice_analysis, session_emotions,
                              session_voice_emotions)
    /\ UNCHANGED <<fuse_input, session_emotions, session_voice_emotions, resets,
                   reset_seen, emotion_call, face_vars,
                   orch_vars, queue_vars, video_vars, audio_vars, voice_vars>>

NextMerge == IntegrateAnalyses
SpecMerge == InitMergeCall /\ [][NextMerge]_vars

(***************************************************************************)
(* The endpointer at work: one start_processing, the audio worker over a   *)
(* stream of chunks of any energies, the camera and the video worker over  *)
(* a few frames, and the control thread resetting the session.             *)
(***************************************************************************)
\* frames the camera offers under SpecEndpoint
EndpointFrames == 1

EndpointVoices ==
    {VoiceView(analyze_emotion("ok", "t", analyze_text_sentiment("t", -80, FALSE, FALSE),
                               Acoustic(5, 1, 2, 1, 1))),
     VoiceView(analyze_emotion("ok", "", analyze_text_sentiment("", 0, FALSE, FALSE),
                               Acoustic(1, 1, 6, 1, 1)))}
EndpointPredictions ==
    {pr \in Predictions : pr.raises \/ (pr.label = "sadness" /\ pr.confidence = 71)}
Energies == {"loud", "quiet"}

Start == \E cb \in BOOLEAN : start_processing(cb)
StartOnce == starts = 0 /\ Start
ReadChunk == \E k \in Workers, e \in Energies : AudioRead(k, e)
SaveSpeech == \E k \in Workers, w \in BOOLEAN, f \in BOOLEAN : SpeechSave(k, w, f)
ScoreSpeech == \E k \in Workers, v \in EndpointVoices : SpeechScore(k, v)
FuseSpeech ==
    \E k \in Workers, cv_ok \in BOOLEAN, pr \in EndpointPredictions,
       v \in EndpointVoices, raises \in BOOLEAN :
        SpeechFuse(k, <<>>, cv_ok, pr, v, raises)
CallBack == \E k \in Workers, raises \in BOOLEAN : SpeechCallback(k, raises)
TakeFrame == \E k \in Workers, cv_ok \in BOOLEAN : VideoTake(k, cv_ok)
InferFrame == \E k \in Workers, pr \in EndpointPredictions : VideoInfer(k, pr)
OfferFewFrames == frames_offered < EndpointFrames /\ AddFrameCheck

NextEndpoint ==
    \/ StartOnce
    \/ ReadChunk
    \/ SaveSpeech
    \/ ScoreSpeech
    \/ FuseSpeech
    \/ CallBack
    \/ OfferFewFrames
    \/ AddFramePut
    \/ TakeFrame
    \/ ResetConversation
SpecEndpoint == Init /\ [][NextEndpoint]_vars

(***************************************************************************)
(* The face estimator on its own: a caller that calls add_frame,           *)
(* get_emotion and reset in any order (as backend_app.py does).            *)
(***************************************************************************)
face_rest == <<model_loaded, session_emotions, session_voice_emotions, analysis_result,
               fuse_input, reset_seen, orch_vars, frame_queue, ppc, pframe,
               video_vars, audio_vars, voice_vars>>

\* emotion_analyzer.add_frame(frame) on the next camera frame
EstimatorAddFrame ==
    /\ frames_offered < FaceFrames
    /\ frames_offered' = frames_offered + 1
    /\ \E cv_ok \in BOOLEAN :
           frame_buffer' = add_frame(frame_buffer, Image(frames_offered + 1, FALSE), cv_ok)
    /\ UNCHANGED <<resets, emotion_call, face_rest>>

\* emotion_analyzer.get_emotion()
EstimatorGetEmotion ==
    /\ \E pr \in Predictions :
           emotion_call' = [buffered |-> Len(frame_buffer), loaded |-> model_loaded,
                            prediction_raises |-> pr.raises,
                            result |-> get_emotion(frame_buffer, model_loaded, pr)]
    /\ UNCHANGED <<frame_buffer, frames_offered, resets, face_rest>>

\* emotion_analyzer.reset(), lines 120-122
EstimatorReset ==
    /\ resets < MaxResets
    /\ resets' = resets + 1
    /\ frame_buffer' = <<>>
    /\ UNCHANGED <<frames_offered, emotion_call, face_rest>>

NextFace == EstimatorAddFrame \/ EstimatorGetEmotion \/ EstimatorReset
SpecFace == Init /\ [][NextFace]_vars

(***************************************************************************)
(* The frame queue: the camera thread offers frames while the video worker *)
(* takes them.                                                             *)
(***************************************************************************)
\* the video worker on frames that cv2 accepts, with a model that answers
TakeQueued == \E k \in Workers : VideoTake(k, TRUE)
InferQueued ==
    \E k \in Workers, pr \in {q \in EndpointPredictions : ~q.raises} : VideoInfer(k, pr)

NextQueue ==
    \/ StartOnce
    \/ AddFrameCheck
    \/ AddFramePut
    \/ TakeQueued
    \/ InferQueued
SpecQueue == Init /\ [][NextQueue]_vars

(***************************************************************************)
(* Start and stop around the two workers. The microphone gives one loud    *)
(* chunk and then quiet ones, so that one utterance is finalized; a worker *)
(* that is blocked in an external call is one that takes no step.          *)
(***************************************************************************)
\* camera frames offered and chunks read around a stop
LifecycleFrames == 3
LifecycleChunks == 16

OfferFrames == frames_offered < LifecycleFrames /\ AddFrameCheck
ReadUtterance ==
    /\ chunks_read < LifecycleChunks
    /\ \E k \in Workers : AudioRead(k, IF chunks_read = 0 THEN "loud" ELSE "quiet")
SaveUtterance == \E k \in Workers : SpeechSave(k, TRUE, TRUE)
FuseUtterance ==
    \E k \in Workers, pr \in EndpointPredictions, v \in EndpointVoices :
        SpeechFuse(k, <<>>, TRUE, pr, v, FALSE)
ExitVideo == \E k \in Workers : VideoExit(k)
ExitAudio == \E k \in Workers : AudioExit(k)
StreamError == \E k \in Workers : AudioStreamError(k)

NextLifecycle ==
    \/ StartOnce
    \/ StopFlags
    \/ JoinVideo
    \/ JoinAudio
    \/ OfferFrames
    \/ AddFramePut
    \/ TakeQueued
    \/ InferQueued
    \/ ExitVideo
    \/ ReadUtterance
    \/ SaveUtterance
    \/ ScoreSpeech
    \/ FuseUtterance
    \/ CallBack
    \/ ExitAudio
    \/ StreamError
SpecLifecycle == Init /\ [][NextLifecycle]_vars
\* the control thread is scheduled: a join that can return does return
SpecLifecycleFair == SpecLifecycle /\ WF_vars(JoinVideo) /\ WF_vars(JoinAudio)

(***************************************************************************)
(* VoiceAnalyzer.analyze_acoustic_emotion on its own: one call on a        *)
(* feature vector drawn from values on both sides of every threshold.      *)
(***************************************************************************)
\* energy in thousandths, zero_crossing_rate in hundredths, speech_rate in
\* tenths
FeatureVectors ==
    [present : {TRUE}, energy : {0, 20, 25, 30, 45, 60}, zero_crossing_rate : {0, 15},
     pitch_mean : {0, 180, 200, 210}, pitch_std : {0, 35, 50},
     speech_rate : {0, 25, 32, 35, 40}, spectral_centroid : {0, 1500, 1700, 2000, 2500},
     tempo : {0, 130}]
    \cup {NoFeatures}

AnalyzeAcoustic ==
    /\ acoustic_result = NoAcoustic
    /\ acoustic_result' = analyze_acoustic_emotion(acoustic_input)
    /\ UNCHANGED <<voice_input, voice_result, acoustic_input, sentiment_input,
                   sentiment_result, face_vars, session_vars, orch_vars, queue_vars,
                   video_vars, audio_vars>>

InitAcousticCall ==
    /\ InitFace /\ InitSession /\ InitOrch /\ InitQueue /\ InitVideo /\ InitAudio
    /\ voice_input = NoVoiceInput
    /\ voice_result = NoVoiceResult
    /\ acoustic_input \in FeatureVectors
    /\ acoustic_result = NoAcoustic
    /\ sentiment_input = NoSentimentInput
    /\ sentiment_result = NoSentiment

NextAcoustic == AnalyzeAcoustic
SpecAcoustic == InitAcousticCall /\ [][NextAcoustic]_vars

(***************************************************************************)
(* The hard cap: a long utterance. The first chunks are loud; from chunk   *)
(* CapFreeFrom on the energies are free, so that the chunk count reaches   *)
(* max_speech_frames on a loud or on a quiet chunk. No camera frame is     *)
(* offered, so an utterance is saved and scored and the worker returns.    *)
(***************************************************************************)
CapFreeFrom == 154
CapChunks == 160

ReadLong ==
    \E k \in Workers,
       e \in (IF chunks_read + 1 < CapFreeFrom THEN {"loud"} ELSE Energies) :
        AudioReadUpTo(k, e, CapChunks)

NextCap ==
    \/ StartOnce
    \/ ReadLong
    \/ SaveUtterance
    \/ ScoreSpeech
SpecCap == Init /\ [][NextCap]_vars

(***************************************************************************)
(* A long session: analyze_response called until a history holds more than *)
(* the 10 entries the estimate reads. The face is happy or sad at each     *)
(* call; the first calls may come without a voice file, the first          *)
(* utterance is glad or sad, the later ones sad.                           *)
(***************************************************************************)
HistLimit == 11

LongVoices ==
    {VoiceView(analyze_emotion("ok", "t", analyze_text_sentiment("t", c, FALSE, FALSE),
                               Acoustic(2, 2, 2, 2, 2))) : c \in {-80, 80}}

FuseLong ==
    /\ Len(session_emotions) < HistLimit
    /\ Len(session_voice_emotions) < HistLimit
    /\ \E pr \in {q \in SessionPredictions : ~q.raises},
          v \in {w \in LongVoices \cup {EmptyAnalysis} :
                    session_voice_emotions = <<>> \/ w.emotion = "sadness"} :
           analyze_response(<<>>, Image(1, FALSE), TRUE, pr, v)
    /\ UNCHANGED <<model_loaded, orch_vars, queue_vars, video_vars, audio_vars, voice_vars>>

NextHistory == FuseLong
SpecHistory == Init /\ [][NextHistory]_vars

\* ---------------------------------------------------------------------------
\* The aggregate vote over given histories: _integrate_analyses called with
\* nothing new to merge (no face image, no voice file), the histories being
\* any label sequences earlier calls have appended.
VoteFaces == 2
VoteVoices == 3
VoteLabels == {"anger", "sadness"}

RECURSIVE LabelSeqs(_, _)
LabelSeqs(labels, n) ==
    IF n = 0 THEN {<<>>}
    ELSE LabelSeqs(labels, n - 1)
         \cup {Append(q, l) : q \in {r \in LabelSeqs(labels, n - 1) : Len(r) = n - 1},
                              l \in labels}

InitVoteCall ==
    /\ InitFace /\ InitOrch /\ InitQueue /\ InitVideo /\ InitAudio /\ InitVoice
    /\ session_emotions \in LabelSeqs(VoteLabels, VoteFaces)
    /\ session_voice_emotions \in LabelSeqs(VoteLabels, VoteVoices)
    /\ analysis_result = NoResult
    /\ resets = 0
    /\ reset_seen = FALSE
    /\ emotion_call = NoEmotionCall
    /\ fuse_input = [text_followups |-> <<>>, face_image |-> NoFrame,
                     face_analysis |-> EmptyAnalysis,
                     voice_analysis |-> EmptyAnalysis]

NextVote == IntegrateAnalyses
SpecVote == InitVoteCall /\ [][NextVote]_vars

\* ---------------------------------------------------------------------------
\* analyze_text_sentiment called on its own: every compound score of [-1, 1]
\* in hundredths, with and without a keyword of either list in the text; for
\* the empty transcript the scorer and the word lists are not consulted.
SentimentInputs ==
    {[text |-> "", compound |-> 0, anger_kw |-> FALSE, fear_kw |-> FALSE]}
    \cup [text : {"t"}, compound : -100..100, anger_kw : BOOLEAN, fear_kw : BOOLEAN]

AnalyzeTextSentiment ==
    /\ sentiment_result = NoSentiment
    /\ sentiment_result' = TextSentimentOf(sentiment_input)
    /\ UNCHANGED <<voice_input, voice_result, acoustic_input, acoustic_result,
                   sentiment_input, face_vars, session_vars, orch_vars, queue_vars,
                   video_vars, audio_vars>>

InitSentimentCall ==
    /\ InitFace /\ InitSession /\ InitOrch /\ InitQueue /\ InitVideo /\ InitAudio
    /\ voice_input = NoVoiceInput
    /\ voice_result = NoVoiceResult
    /\ acoustic_input = NoFeatures
    /\ acoustic_result = NoAcoustic
    /\ sentiment_input \in SentimentInputs
    /\ sentiment_result = NoSentiment

NextSentiment == AnalyzeTextSentiment
SpecSentiment == InitSentimentCall /\ [][NextSentiment]_vars

(***************************************************************************)
(* Stop while the video worker is between its loop test and the queue: the *)
(* lifecycle steps with the loop test of line 92 as a step of its own.     *)
(***************************************************************************)
TestVideoFlag == \E k \in Workers : VideoLoopTest(k)
SleepVideo == \E k \in Workers : VideoSleep(k)

NextStop ==
    \/ StartOnce
    \/ StopFlags
    \/ JoinVideo
    \/ JoinAudio
    \/ OfferFrames
    \/ AddFramePut
    \/ TestVideoFlag
    \/ SleepVideo
    \/ TakeQueued
    \/ InferQueued
    \/ ExitVideo
    \/ ReadUtterance
    \/ SaveUtterance
    \/ ScoreSpeech
    \/ FuseUtterance
    \/ CallBack
    \/ ExitAudio
    \/ StreamError
SpecStop == Init /\ [][NextStop]_vars
\* the workers are scheduled: a step of a worker's own code that can be taken
\* is taken. Nothing is assumed of the calls into the models, the
\* transcription and the client's callback (InferQueued, ScoreSpeech,
\* FuseUtterance, CallBack): they may never return.
SpecStopFair ==
    /\ SpecStop
    /\ WF_vars(ExitVideo) /\ WF_vars(SleepVideo) /\ WF_vars(TakeQueued)
    /\ WF_vars(ExitAudio) /\ WF_vars(SaveUtterance)

(***************************************************************************)
(* start_processing and stop_processing called in any order, up to         *)
(* MaxStarts starts. The microphone gives one loud chunk and then quiet    *)
(* ones; no camera frame is offered, so a finalized utterance is saved and *)
(* scored and the worker returns to its loop.                              *)
(***************************************************************************)
RestartChunks == 18

ReadRestart ==
    /\ chunks_read < RestartChunks
    /\ \E k \in Workers :
           AudioReadUpTo(k, IF chunks_read = 0 THEN "loud" ELSE "quiet", RestartChunks)

NextRestart ==
    \/ Start
    \/ StopFlags
    \/ JoinVideo
    \/ JoinAudio
    \/ ExitVideo
    \/ ReadRestart
    \/ SaveUtterance
    \/ ScoreSpeech
    \/ ExitAudio
SpecRestart == Init /\ [][NextRestart]_vars

(***************************************************************************)
(* analyze_response statement by statement, on the audio worker's thread,  *)
(* while the control thread may call reset_session between any two of      *)
(* them: the face part (lines 57-66), the voice part (lines 68-73), then   *)
(* _integrate_analyses (line 76). analysis_result.status tells how far the *)
(* call has come.                                                          *)
(***************************************************************************)
FuseFacePart ==
    /\ analysis_result.status \in {"none", "returned"}
    /\ Len(session_emotions) < MaxHist
    /\ Len(session_voice_emotions) < MaxHist
    /\ \E tf \in SessionFollowups, fi \in SessionFrames \cup {NoFrame},
          pr \in SessionPredictions :
           LET face == FaceStep(fi, TRUE, pr)
           IN  /\ frame_buffer' = face.buffer
               /\ session_emotions' = face.emotions
               /\ fuse_input' = [text_followups |-> tf, face_image |-> fi,
                                 face_analysis |-> face.analysis,
                                 voice_analysis |-> EmptyAnalysis]
    /\ analysis_result' = [NoResult EXCEPT !.status = "face_done"]
    /\ UNCHANGED <<session_voice_emotions, resets, reset_seen, emotion_call,
                   model_loaded, orch_vars, queue_vars, video_vars, audio_vars,
                   voice_vars>>

FuseVoicePart ==
    /\ analysis_result.status = "face_done"
    /\ \E v \in SessionVoices \cup {EmptyAnalysis} :
           /\ session_voice_emotions' = VoiceStep(v)
           /\ fuse_input' = [fuse_input EXCEPT !.voice_analysis = v]
    /\ analysis_result' = [NoResult EXCEPT !.status = "voice_done"]
    /\ UNCHANGED <<session_emotions, resets, reset_seen, emotion_call, face_vars,
                   orch_vars, queue_vars, video_vars, audio_vars, voice_vars>>

FuseIntegrate ==
    /\ analysis_result.status = "voice_done"
    /\ analysis_result' =
           integrate_analyses(fuse_input.text_followups, fuse_input.face_analysis,
                              fuse_input.voice_analysis, session_emotions,
                              session_voice_emotions)
    /\ UNCHANGED <<fuse_input, session_emotions, session_voice_emotions, resets,
                   reset_seen, emotion_call, face_vars,
                   orch_vars, queue_vars, video_vars, audio_vars, voice_vars>>

NextFuseSteps == FuseFacePart \/ FuseVoicePart \/ FuseIntegrate \/ ResetConversation
SpecFuseSteps == Init /\ [][NextFuseSteps]_vars

(***************************************************************************)
(* The energy test of the audio loop on measured energies. Energies are in *)
(* thousandths of the int16 full scale (energy_normalized x 1000).         *)
(***************************************************************************)
silence_threshold == 10
MeasuredEnergies == {0, 9, 10, 11, 500}

\* line 170 with >= in place of >
EnergyClass_at_threshold(energy_normalized) ==
    IF energy_normalized >= silence_threshold THEN "loud" ELSE "quiet"

\* line 170
EnergyClass(energy_normalized) ==
    IF energy_normalized > silence_threshold THEN "loud" ELSE "quiet"

AudioReadEnergy(k, energy_normalized) == AudioRead(k, EnergyClass(energy_normalized))

ReadMeasured == \E k \in Workers, en \in MeasuredEnergies : AudioReadEnergy(k, en)

NextIdle == StartOnce \/ ReadMeasured \/ SaveSpeech \/ ScoreSpeech
SpecIdle == Init /\ [][NextIdle]_vars

(***************************************************************************)
(* Claims.                                                                 *)
(***************************************************************************)
Iota(n) == [i \in 1..n |-> i]

SpeechPcs == {"speech_save", "speech_score", "speech_fuse", "speech_callback"}

\* C4 as stated. On every finalize event the audio worker itself, before it
\* reads the next chunk, has scored the voice, run the multimodal fusion and
\* invoked the registered result callback.
C4_EveryFinalizeFusesAndCallsBack ==
    /\ (n_finalize > 0 /\ ~finalized.returned) => apc[finalized.by] \in SpeechPcs
    /\ finalized.returned
       => /\ finalized.scored >= 1
          /\ finalized.fused
          /\ results_callback => finalized.callback

\* C4 as amended. On every finalize event the worker that finalized stays in
\* the processing of the utterance until it returns, and only then reads
\* again; by then it has scored the voice unless writing the file failed, it
\* has run the fusion exactly when the transcript is non-empty and a processed
\* video frame exists, and it has invoked the callback exactly when the fusion
\* ran, the response was generated without an exception and a callback is
\* registered.
C4_FinalizeFusesWhenTranscriptAndFrame ==
    /\ (n_finalize > 0 /\ ~finalized.returned) => apc[finalized.by] \in SpeechPcs
    /\ finalized.returned
       => /\ apc[finalized.by] \in {"loop", "done"}
          /\ finalized.scored >= 1 \/ finalized.raised = "save"
          /\ finalized.fused <=> (finalized.transcript # "" /\ finalized.face)
          /\ finalized.callback
             <=> (finalized.fused /\ results_callback /\ finalized.raised # "respond")

C4_Witness ==
    /\ finalized.returned
    /\ finalized.fused
    /\ finalized.callback
    /\ finalized.raised = "no"
    /\ chunks_read > Len(finalized.frames)

\* a finalize event whose utterance had no transcript: no fusion, no callback
C4_WitnessSkipped ==
    /\ finalized.returned
    /\ finalized.transcript = ""
    /\ ~finalized.fused

\* C7 as stated. A reset leaves the frame window, the utterance buffer and
\* both histories empty, whatever the audio worker was doing.
C7_ResetClearsUtteranceBuffer ==
    [][resets' # resets
       => /\ frame_buffer' = <<>>
          /\ speech_frames' = <<>>
          /\ session_emotions' = <<>>
          /\ session_voice_emotions' = <<>>]_vars

\* C7 as amended. A reset leaves the frame window and both histories empty;
\* the utterance buffer and the speaking flag are left as they were, so a
\* reset in the middle of an utterance keeps the chunks buffered so far.
C7_ResetKeepsUtteranceBuffer ==
    [][resets' # resets
       => /\ frame_buffer' = <<>>
          /\ session_emotions' = <<>>
          /\ session_voice_emotions' = <<>>
          /\ speech_frames' = speech_frames
          /\ speaking' = speaking]_vars

\* a reset was made in the middle of an utterance, after a fusion had filled
\* the histories
C7_Witness ==
    /\ resets > 0
    /\ reset_seen
    /\ speaking
    /\ speech_frames # <<>>
    /\ n_callbacks > 0
    /\ session_emotions = <<>>
    /\ session_voice_emotions = <<>>
    /\ frame_buffer = <<>>

\* C2. Whatever the sequence of add_frame calls, the frame window never
\* holds more than 3 frames; a call on a full window drops the oldest frame
\* and keeps the other two in order before the new one; right after reset()
\* the window is empty.
C2_FrameWindowBounded ==
    /\ [](Len(frame_buffer) <= FrameWindowSize)
    /\ [][(frames_offered' # frames_offered /\ frame_buffer' # frame_buffer
             /\ Len(frame_buffer) = FrameWindowSize)
          => /\ Len(frame_buffer') = FrameWindowSize
             /\ frame_buffer'[1] = frame_buffer[2]
             /\ frame_buffer'[2] = frame_buffer[3]
             /\ frame_buffer'[3].src = frames_offered']_vars
    /\ [][resets' # resets => Len(frame_buffer') = 0]_vars

\* a fourth accepted frame has pushed the first one out of a full window
C2_Witness ==
    /\ Len(frame_buffer) = FrameWindowSize
    /\ frame_buffer[1].src > 1
    /\ frames_offered > FrameWindowSize
    /\ resets = 0

\* C3. A call of get_emotion that finds fewer than 3 frames buffered, with or
\* without a model, or that finds no model, whatever the number of frames,
\* returns status waiting and no emotion label.
C3_WaitingWithoutFramesOrModel ==
    (/\ emotion_call.result # EmptyAnalysis
     /\ emotion_call.buffered < FrameWindowSize \/ ~emotion_call.loaded)
    => /\ emotion_call.result.status = "waiting"
       /\ ~HasEmotion(emotion_call.result)

\* get_emotion was called with a model loaded and two frames buffered
C3_Witness ==
    /\ emotion_call.result.status = "waiting"
    /\ emotion_call.loaded
    /\ emotion_call.buffered = 2

\* C5. The frame queue never holds more than 10 frames; an add_frame that
\* finds the queue full leaves it unchanged and returns; with the one camera
\* thread as producer, add_frame never reaches put() on a full queue, so it
\* never blocks.
C5_QueueBoundedLossy ==
    /\ [](Len(frame_queue) <= frame_queue_maxsize)
    /\ [](ppc = "put" => Len(frame_queue) < frame_queue_maxsize)
    /\ [][(frames_offered' # frames_offered /\ Len(frame_queue) = frame_queue_maxsize)
          => /\ frame_queue' = frame_queue
             /\ ppc' = "idle"]_vars

\* a frame was offered to a full queue and dropped
C5_Witness ==
    /\ Len(frame_queue) = frame_queue_maxsize
    /\ ppc = "idle"
    /\ frame_queue[frame_queue_maxsize].src < frames_offered

\* C6. Once stop_processing has begun it returns: each of its joins can
\* always return, whether the joined worker has ended or not, and under a
\* scheduled control thread the call gets back to its caller.
C6_StopReturns ==
    /\ [](cpc # "idle" => ENABLED (JoinVideo \/ JoinAudio))
    /\ (cpc # "idle") ~> (cpc = "idle")

\* stop_processing has returned, both joins having timed out, while the audio
\* worker is in the transcription and the video worker in the inference
C6_Witness ==
    /\ cpc = "idle"
    /\ join_timeouts = {"video", "audio"}
    /\ apc[audio_thread] = "speech_score"
    /\ vpc[video_thread] = "infer"

\* the acoustic score of a label: 0 for a label the distribution lacks
AcousticNum(acoustic, l) ==
    IF l \in DOMAIN acoustic.all_emotions THEN acoustic.all_emotions[l] ELSE 0

\* C8. For every acoustic distribution and transcript (label, confidence) the
\* combined score of each label is 0.3 x its acoustic score, plus 0.7 x the
\* transcript confidence for the transcript's label; the fused label carries
\* the largest combined score. The acoustic scores (.5, .1, .2, .1, .1) with a
\* transcript sadness at 0.9 give sadness 0.69, anger 0.15, label sadness.
C8_VoiceFusionWeights ==
    voice_result.status = "ok"
    => LET acoustic == voice_input.acoustic
           ts == TextSentimentOf(voice_input)
           score(l) == Frac(voice_result.combined[l], voice_result.combined_den)
       IN  /\ \A l \in VoiceLabelSet :
                  FracEq(score(l),
                         Frac(3 * AcousticNum(acoustic, l) * ts.confidence.den
                              + (IF l = ts.emotion
                                 THEN 7 * ts.confidence.num * acoustic.den ELSE 0),
                              10 * acoustic.den * ts.confidence.den))
           /\ \A l \in VoiceLabelSet : FracLe(score(l), score(voice_result.emotion))
           /\ (/\ acoustic = Acoustic(5, 1, 2, 1, 1)
               /\ ts.emotion = "sadness"
               /\ FracEq(ts.confidence, Frac(9, 10)))
              => /\ FracEq(score("sadness"), Frac(69, 100))
                 /\ FracEq(score("anger"), Frac(15, 100))
                 /\ voice_result.emotion = "sadness"

\* the example of the claim has been computed
C8_Witness ==
    /\ voice_result.status = "ok"
    /\ voice_input.acoustic = Acoustic(5, 1, 2, 1, 1)
    /\ voice_input.compound = -80
    /\ ~voice_input.anger_kw /\ ~voice_input.fear_kw
    /\ voice_result.emotion = "sadness"

PriorityRank(f) == IF f.priority = "high" THEN 1 ELSE IF f.priority = "medium" THEN 2 ELSE 3

\* C9. The merged list has the high items of the text follow-ups first, then
\* the medium items (text, then emotion-triggered) whose type no high item
\* has, then the low items whose type no emitted high or medium item has;
\* each bucket keeps the input order; no type occurs in two buckets; one
\* high text item and two medium emotion items, the three types distinct,
\* give [high, medium1, medium2].
C9_FollowupMerge ==
    analysis_result.status = "returned"
    => LET out == analysis_result.suggested_followups
           tf == fuse_input.text_followups
           ef == generate_emotion_followups(fuse_input.face_analysis,
                                            fuse_input.voice_analysis)
           bucket(p) == SelectSeq(out, LAMBDA f : f.priority = p)
       IN  /\ \A i, j \in 1..Len(out) : i < j => PriorityRank(out[i]) <= PriorityRank(out[j])
           /\ bucket("high") = SelectSeq(tf, LAMBDA f : f.priority = "high")
           /\ bucket("medium")
                = SelectSeq(tf \o ef, LAMBDA f : /\ f.priority = "medium"
                                                 /\ f.type \notin Types(bucket("high")))
           /\ bucket("low")
                = SelectSeq(tf \o ef,
                            LAMBDA f : /\ f.priority = "low"
                                       /\ f.type \notin Types(bucket("high"))
                                       /\ f.type \notin Types(bucket("medium")))
           /\ \A i, j \in 1..Len(out) :
                  out[i].type = out[j].type => out[i].priority = out[j].priority
           /\ (/\ Len(tf) = 1 /\ tf[1].priority = "high"
               /\ Len(ef) = 2 /\ ef[1].priority = "medium" /\ ef[2].priority = "medium"
               /\ Cardinality({tf[1].type, ef[1].type, ef[2].type}) = 3)
              => out = <<tf[1], ef[1], ef[2]>>

\* the example of the claim has been merged
C9_Witness ==
    /\ analysis_result.status = "returned"
    /\ Len(fuse_input.text_followups) = 1
    /\ Len(analysis_result.suggested_followups) = 3
    /\ analysis_result.suggested_followups[1].priority = "high"
    /\ analysis_result.suggested_followups[2].type = "emotion_exploration"
    /\ analysis_result.suggested_followups[3].type = "voice_emotion_exploration"

IsEmptyState(es) == es.valence.num = 0 /\ es.arousal.num = 0 /\ es.dominant_emotion = None

\* C10. While the face history and the voice history are both empty, at the
\* start and after a reset, the aggregate emotional state is valence 0,
\* arousal 0 and no dominant emotion; a fusion that leaves both histories
\* empty returns that state.
C10_EmptyHistoryState ==
    /\ []((session_emotions = <<>> /\ session_voice_emotions = <<>>)
          => IsEmptyState(estimate_emotional_state(session_emotions,
                                                   session_voice_emotions)))
    /\ [][(/\ analysis_result' # analysis_result
           /\ session_emotions' = <<>>
           /\ session_voice_emotions' = <<>>)
          => IsEmptyState(analysis_result'.emotional_state)]_vars

\* both histories are empty again after a reset that followed a fusion with
\* a dominant emotion
C10_Witness ==
    /\ resets > 0
    /\ session_emotions = <<>>
    /\ session_voice_emotions = <<>>
    /\ analysis_result.status = "returned"
    /\ analysis_result.emotional_state.dominant_emotion # None

\* C11. Whatever the feature vector, the acoustic scorer returns scores over
\* labels of {anger, happiness, sadness, fear, neutral} that are all >= 0 and
\* sum to 1 (a label the result lacks scoring 0); the neutral score before the
\* normalisation is never below 0.
C11_AcousticDistribution ==
    acoustic_result # NoAcoustic
    => /\ DOMAIN acoustic_result.all_emotions \subseteq VoiceLabelSet
       /\ \A l \in VoiceLabelSet : AcousticNum(acoustic_result, l) >= 0
       /\ acoustic_result.den > 0
       /\ SumSeq([i \in 1..Len(VoiceLabels) |-> AcousticNum(acoustic_result, VoiceLabels[i])])
            = acoustic_result.den

\* a vector with every anger indicator: the neutral baseline is reduced by the
\* full 0.2
C11_Witness ==
    /\ acoustic_input.present
    /\ acoustic_result # NoAcoustic
    /\ acoustic_result.all_emotions.anger = 9
    /\ acoustic_result.all_emotions.neutral = 1

\* C12. A finalized utterance is handed to the voice scoring exactly once:
\* never more than once, and once by the time the worker is back in its loop
\* after a processing that raised nothing; no chunk occurs twice in it.
C12_UtteranceScoredOnce ==
    /\ finalized.scored <= 1
    /\ (finalized.returned /\ finalized.raised = "no") => finalized.scored = 1
    /\ \A i, j \in 1..Len(finalized.frames) :
           finalized.frames[i] = finalized.frames[j] => i = j

\* C13. While the pipeline runs, only the video worker changes the frame
\* window: a step that changes it (the reset apart, which clears it) is a
\* dequeue by the video worker, and no step of the audio worker.
C13_WindowWrittenByVideoWorkerOnly ==
    [][(frame_buffer' # frame_buffer /\ resets' = resets)
       => /\ frame_queue # <<>>
          /\ frame_queue' = Tail(frame_queue)
          /\ apc' = apc]_vars

LastFinalized == finalized.frames[Len(finalized.frames)]

\* C14 as stated. After a hard-cap finalize the endpointer is still Speaking
\* with zeroed counters, and the very next chunk, loud or quiet, is the first
\* chunk of a new utterance.
C14_CapKeepsSpeaking ==
    (finalized.why = "cap" /\ finalized.returned)
    => /\ chunks_read = LastFinalized
          => /\ speaking
             /\ speech_frames = <<>>
             /\ speech_frames_count[finalized.by] = 0
             /\ silent_frames[finalized.by] = 0
       /\ chunks_read = LastFinalized + 1 => speech_frames = <<chunks_read>>

\* C14 as amended. When the chunk count reaches max_speech_frames on a loud
\* chunk the utterance is finalized; afterwards the endpointer is Idle with an
\* empty buffer and zeroed counters: the very next chunk starts a new
\* utterance when it is loud, and is dropped when it is quiet.
C14_CapReturnsToIdle ==
    /\ ((\E k \in Workers : speech_frames_count[k] >= max_speech_frames)
        /\ heard.last = "loud")
       => /\ finalized.why = "cap"
          /\ LastFinalized = chunks_read
          /\ ~finalized.returned
    /\ (finalized.why = "cap" /\ finalized.returned)
       => /\ chunks_read = LastFinalized
             => /\ ~speaking
                /\ speech_frames = <<>>
                /\ speech_frames_count[finalized.by] = 0
                /\ silent_frames[finalized.by] = 0
          /\ chunks_read = LastFinalized + 1
             => IF heard.last = "loud"
                THEN speaking /\ speech_frames = <<chunks_read>>
                ELSE ~speaking /\ speech_frames = <<>>

\* a quiet chunk was read right after a hard-cap finalize, and dropped
C14_Witness ==
    /\ finalized.why = "cap"
    /\ finalized.returned
    /\ chunks_read = LastFinalized + 1
    /\ heard.last = "quiet"
    /\ ~speaking

\* C15. An utterance is finalized on the chunk at which its chunk count
\* reaches max_speech_frames, loud or quiet: the buffer never holds more than
\* max_speech_frames chunks and no finalized utterance does.
C15_UtteranceAtMostCap ==
    /\ Len(speech_frames) <= max_speech_frames
    /\ Len(finalized.frames) <= max_speech_frames

\* C16. In every result of the voice fusion the returned distribution sums to
\* 1, the returned confidence is the distribution's value for the returned
\* label, and it lies in [0, 1].
C16_ConfidenceIsNormalised ==
    voice_result.status = "ok"
    => LET dist == voice_result.all_emotions
           total == dist[voice_result.emotion].den
       IN  /\ \A l \in VoiceLabelSet : dist[l].den = total
           /\ SumSeq([i \in 1..Len(VoiceLabels) |-> dist[VoiceLabels[i]].num]) = total
           /\ FracEq(voice_result.confidence, dist[voice_result.emotion])
           /\ FracLe(Frac(0, 1), voice_result.confidence)
           /\ FracLe(voice_result.confidence, Frac(1, 1))

IsPrefix(s, t) == Len(s) <= Len(t) /\ SubSeq(t, 1, Len(s)) = s
Newest10(s) == IF Len(s) <= 10 THEN s ELSE SubSeq(s, Len(s) - 9, Len(s))

\* C17 as stated. After any sequence of fusion calls each stored history
\* holds at most 10 entries.
C17_HistoriesHoldAtMostTen ==
    /\ Len(session_emotions) <= 10
    /\ Len(session_voice_emotions) <= 10

\* C17 as amended. A fusion call never drops an entry of a stored history:
\* it leaves each history as it was or appends one entry, whatever the
\* length (only a reset empties them); the aggregate state it returns is the
\* state of the 10 most recent entries of each history.
C17_HistoriesGrowEstimateReadsTen ==
    [][resets' = resets
       => /\ IsPrefix(session_emotions, session_emotions')
          /\ Len(session_emotions') <= Len(session_emotions) + 1
          /\ IsPrefix(session_voice_emotions, session_voice_emotions')
          /\ Len(session_voice_emotions') <= Len(session_voice_emotions) + 1
          /\ analysis_result' # analysis_result
             => analysis_result'.emotional_state
                  = estimate_emotional_state(Newest10(session_emotions'),
                                             Newest10(session_voice_emotions'))]_vars

\* an eleventh entry is stored while the first, which the estimate no longer
\* reads, differs from the later ones
C17_Witness ==
    /\ Len(session_voice_emotions) = 11
    /\ session_voice_emotions[1] = "happiness"
    /\ Len(session_emotions) >= 1
    /\ analysis_result.status = "returned"
    /\ analysis_result.emotional_state.dominant_emotion = "sadness"

DecimalVote(l) ==
    6 * Occurrences(Newest10(session_emotions), l)
    + 4 * Occurrences(Newest10(session_voice_emotions), l)
FirstSeen(l) ==
    LET scan == Newest10(session_emotions) \o Newest10(session_voice_emotions)
    IN  CHOOSE i \in 1..Len(scan) : scan[i] = l /\ \A j \in 1..(i - 1) : scan[j] # l

\* C18. The dominant emotion of a returned aggregate state is the label with
\* the largest sum of 0.6 per face-history entry and 0.4 per voice-history
\* entry carrying it; among labels whose sums are equal and largest, it is the
\* one met first scanning the face history and then the voice history, oldest
\* first.
C18_DominantIsLargestVoteFirstSeen ==
    (analysis_result # NoResult
     /\ Len(session_emotions) + Len(session_voice_emotions) > 0)
    => LET scan == Newest10(session_emotions) \o Newest10(session_voice_emotions)
           dom == analysis_result.emotional_state.dominant_emotion
       IN  /\ dom \in Range(scan)
           /\ \A l \in Range(scan) :
                  \/ DecimalVote(l) < DecimalVote(dom)
                  \/ DecimalVote(l) = DecimalVote(dom) /\ FirstSeen(dom) <= FirstSeen(l)

\* C19. The transcript scorer answers every compound score of [-1, 1] with
\* exactly one label: happiness from 0.5 up; from -0.5 down anger when an
\* anger keyword occurs, else fear when a fear keyword occurs, else sadness;
\* neutral in between. Its confidence lies in [0.5, 0.95]; the empty
\* transcript gives neutral with confidence exactly 0.5.
C19_SentimentTotalAndDisjoint ==
    sentiment_result # NoSentiment
    => LET in == sentiment_input
           e == sentiment_result.emotion
           c == in.compound
       IN  /\ e \in VoiceLabelSet
           /\ FracLe(Frac(1, 2), sentiment_result.confidence)
           /\ FracLe(sentiment_result.confidence, Frac(95, 100))
           /\ in.text = "" => e = "neutral" /\ sentiment_result.confidence = Frac(1, 2)
           /\ in.text # ""
              => /\ e = "happiness" <=> c >= 50
                 /\ e = "anger" <=> (c <= -50 /\ in.anger_kw)
                 /\ e = "fear" <=> (c <= -50 /\ ~in.anger_kw /\ in.fear_kw)
                 /\ e = "sadness" <=> (c <= -50 /\ ~in.anger_kw /\ ~in.fear_kw)
                 /\ e = "neutral" <=> (-50 < c /\ c < 50)

\* a transcript holding words of both lists, scored at the lower boundary
C19_Witness ==
    /\ sentiment_input.text = "t"
    /\ sentiment_input.compound = -50
    /\ sentiment_input.anger_kw /\ sentiment_input.fear_kw
    /\ sentiment_result.emotion = "anger"
    /\ sentiment_result.confidence = Frac(150, 200)

VideoBlocked == {"infer"}
AudioBlocked == {"speech_score", "speech_fuse", "speech_callback"}

\* C20. Once stop_processing has cleared the two flags, each worker that was
\* started ends up terminated for good, or stays inside an external call
\* that does not return; and when no video worker is left that has not seen
\* the cleared flag at its loop test (each has terminated or was never
\* started), no frame leaves the queue.
C20_StopEndsWorkers ==
    /\ \A k \in Workers :
           [](~video_running /\ vpc[k] # "unborn"
              => <>[](vpc[k] \in {"done"} \cup VideoBlocked))
    /\ \A k \in Workers :
           [](~audio_running /\ apc[k] # "unborn"
              => <>[](apc[k] \in {"done"} \cup AudioBlocked))
    /\ [][(\A k \in Workers : vpc[k] \in {"done", "unborn"})
             => /\ Len(frame_queue') >= Len(frame_queue)
                /\ \A k \in Workers : vpc[k] = "done" => vpc'[k] = "done"]_vars

\* both workers have terminated after a stop that found the video worker
\* past its loop test: a frame offered since is left in the queue
C20_Witness ==
    /\ ~video_running /\ ~audio_running
    /\ cpc = "idle"
    /\ vpc[1] = "done" /\ apc[1] = "done"
    /\ "video" \in join_timeouts
    /\ frame_queue # <<>>

\* C21. Whatever the processing of a finalized utterance does (the write of
\* the file or generate_response or the callback raises, scoring reports an
\* error, or all succeed), the audio worker comes back to its loop, not to
\* its end, with the speaking flag cleared, the utterance buffer empty and
\* both counters at zero.
C21_FailureKeepsWorkerLooping ==
    [][\A k \in Workers :
          (apc[k] \in SpeechPcs /\ apc'[k] \notin SpeechPcs)
          => /\ apc'[k] = "loop"
             /\ ~speaking'
             /\ speech_frames' = <<>>
             /\ speech_frames_count'[k] = 0
             /\ silent_frames'[k] = 0]_vars

\* the callback raised on the last utterance, and the worker has since read
\* a loud chunk and buffers it as the start of the next utterance
C21_Witness ==
    /\ finalized.raised = "callback"
    /\ finalized.returned
    /\ apc[1] = "loop"
    /\ speaking
    /\ Len(speech_frames) = 1
    /\ speech_frames[1] = chunks_read

\* C22. When feature extraction fails for an utterance, its scoring returns
\* the status "error" with no emotion label, and the utterance goes back to
\* the loop without fusion: neither history is changed by it.
C22_FeatureFailureLeavesHistories ==
    [][\A k \in Workers :
          (apc[k] = "speech_score" /\ ~wav[k].features_ok /\ apc'[k] # apc[k])
          => /\ finalized'.voice_status = "error"
             /\ \A v \in EndpointVoices : ~HasEmotion(ScoreFile(k, v))
             /\ apc'[k] = "loop"
             /\ ~finalized'.fused
             /\ session_emotions' = session_emotions
             /\ session_voice_emotions' = session_voice_emotions]_vars

\* an utterance without features was scored while a processed frame was
\* there to fuse with, and the worker is back in its loop
C22_Witness ==
    /\ finalized.voice_status = "error"
    /\ finalized.returned
    /\ finalized.face
    /\ ~finalized.fused
    /\ apc[1] = "loop"
    /\ session_voice_emotions = <<>>

\* C23. Whenever the audio worker of a run stands at the top of its loop,
\* between two chunks: the speaking flag is set exactly when the utterance
\* buffer is non-empty, the frame counter is the number of buffered chunks,
\* and the silence counter is below max_silent_frames and not above the
\* frame counter.
C23_ChunkBoundaryInvariant ==
    \A k \in Workers :
        apc[k] = "loop"
        => /\ speaking <=> speech_frames # <<>>
           /\ speech_frames_count[k] = Len(speech_frames)
           /\ silent_frames[k] < max_silent_frames
           /\ silent_frames[k] <= speech_frames_count[k]

\* one chunk short of the silence limit, after an utterance of several loud
\* chunks
C23_Witness ==
    /\ apc[1] = "loop"
    /\ speaking
    /\ silent_frames[1] = max_silent_frames - 1
    /\ speech_frames_count[1] = max_silent_frames + 2
    /\ Len(speech_frames) = max_silent_frames + 2

Running(pc) == {k \in Workers : pc[k] \notin {"unborn", "done"}}

\* C24. Whatever the order of the start_processing and stop_processing
\* calls, at most one video worker and at most one audio worker are running
\* (started and not yet terminated) at any time.
C24_OneWorkerOfEachKind ==
    /\ Cardinality(Running(vpc)) <= 1
    /\ Cardinality(Running(apc)) <= 1

\* stop_processing was called after the latest start and has returned
StopReturned == starts >= 1 /\ cpc = "idle" /\ ~video_running /\ ~audio_running

\* C25. Once stop_processing has returned, and until the next start, the
\* result callback is not invoked and no worker writes the speaking flag,
\* the latest results, the current face estimate or the two histories.
C25_QuietAfterStop ==
    [][StopReturned /\ StopReturned'
       => /\ n_callbacks' = n_callbacks
          /\ speaking' = speaking
          /\ latest_results' = latest_results
          /\ current_emotion' = current_emotion
          /\ session_emotions' = session_emotions
          /\ session_voice_emotions' = session_voice_emotions]_vars

\* C26. An utterance, when it is finalized, holds only chunks read since the
\* latest start_processing, consecutive ones, in the order they were read.
C26_UtteranceFromCurrentRun ==
    [][n_finalize' > n_finalize
       => LET frames == finalized'.frames
          IN  /\ \A i \in 1..Len(frames) : frames[i] > heard.run_from
              /\ \A i \in 1..(Len(frames) - 1) : frames[i + 1] = frames[i] + 1]_vars

\* C27. A voice estimate of sadness or anger with confidence above 0.7 gives
\* a suggestion of type voice_emotion_exploration in the result, whatever
\* the face estimate of the call is, also one with confidence below 0.6.
C27_VoiceFollowupWhateverTheFace ==
    analysis_result.status = "returned"
    => LET voice == fuse_input.voice_analysis
           out == analysis_result.suggested_followups
       IN  (/\ HasEmotion(voice)
            /\ voice.emotion \in {"sadness", "anger"}
            /\ FracLt(Frac(70, 100), voice.confidence))
           => \E i \in 1..Len(out) : out[i].type = "voice_emotion_exploration"

\* the ring buffer has taken one more entry, derived from the frame `src`
ProcessedGained(src) ==
    /\ processed_frames' # <<>>
    /\ processed_frames'[Len(processed_frames')].src = src
    /\ \/ Len(processed_frames') = Len(processed_frames) + 1
       \/ /\ Len(processed_frames) = processed_frames_maxlen
          /\ Len(processed_frames') = processed_frames_maxlen
          /\ processed_frames' # processed_frames

\* C28. Each frame the video worker dequeues adds one entry to the
\* processed-frame ring buffer by the time the worker is done with it, so
\* that the latest processed frame is then one derived from it: both when
\* the frame is stored right away and when the inference has run, whether
\* or not it gave a label.
C28_EveryDequeuedFrameProcessed ==
    [][\A k \in Workers :
          /\ (vpc[k] = "infer" /\ vpc'[k] = "loop") => ProcessedGained(vframe[k].src)
          /\ (vpc[k] \in {"loop", "in_loop"} /\ vpc'[k] = "loop"
               /\ Len(frame_queue') < Len(frame_queue))
              => ProcessedGained(Head(frame_queue).src)]_vars

LastOf(q) == q[Len(q)]

\* C29. When a fusion call returns, the face estimate and the voice
\* estimate of the call that carry a label are the newest entries of their
\* histories and the returned state is the state of those histories (so a
\* call with a labelled voice estimate returns a dominant emotion); and a
\* history only ever grows by the label of the call's estimate.
C29_EstimatesAppendedBeforeAggregate ==
    [][/\ (analysis_result'.status = "returned" /\ analysis_result' # analysis_result)
          => LET face == fuse_input'.face_analysis
                 voice == fuse_input'.voice_analysis
                 state == analysis_result'.emotional_state
             IN  /\ HasEmotion(face)
                    => /\ session_emotions' # <<>>
                       /\ LastOf(session_emotions') = face.emotion
                 /\ HasEmotion(voice)
                    => /\ session_voice_emotions' # <<>>
                       /\ LastOf(session_voice_emotions') = voice.emotion
                       /\ state.dominant_emotion # None
                 /\ state = estimate_emotional_state(session_emotions',
                                                     session_voice_emotions')
       /\ Len(session_emotions') > Len(session_emotions)
          => /\ HasEmotion(fuse_input'.face_analysis)
             /\ session_emotions'
                  = Append(session_emotions, fuse_input'.face_analysis.emotion)
       /\ Len(session_voice_emotions') > Len(session_voice_emotions)
          => /\ HasEmotion(fuse_input'.voice_analysis)
             /\ session_voice_emotions'
                  = Append(session_voice_emotions, fuse_input'.voice_analysis.emotion)]_vars

\* C30. While the speaking flag is clear, reading a chunk whose normalized
\* energy is at or below silence_threshold leaves the utterance buffer, the
\* speaking flag, the frame counter and the silence counter as they were,
\* and finalizes nothing: the worker stays at the top of its loop.
C30_QuietChunkInIdleChangesNothing ==
    [][(/\ ~speaking
        /\ \E k \in Workers, en \in MeasuredEnergies :
               en <= silence_threshold /\ AudioReadEnergy(k, en))
       => /\ speech_frames' = speech_frames
          /\ speaking' = speaking
          /\ speech_frames_count' = speech_frames_count
          /\ silent_frames' = silent_frames
          /\ n_finalize' = n_finalize
          /\ finalized' = finalized
          /\ apc' = apc]_vars

\* back in Idle after an utterance was finalized and processed, the worker
\* has read a further chunk, a quiet one
C30_Witness ==
    /\ ~speaking
    /\ finalized.returned
    /\ heard.last = "quiet"
    /\ apc[1] = "loop"
    /\ chunks_read > Len(finalized.frames) + 1
    /\ speech_frames = <<>>
    /\ speech_frames_count[1] = 0

====
